---- MODULE Spec2Model ----
(***************************************************************************)
(* ClaudeShield: policy engine, in-container policy shell, sandbox engine, *)
(* rollback manager and multi-agent orchestrator.                          *)
(*                                                                         *)
(* Strings that the code inspects character by character (commands, rule   *)
(* patterns, file paths) are sequences of one-character strings.  Strings  *)
(* the code only compares or copies (reasons, event names) are TLA+        *)
(* strings.                                                                *)
(***************************************************************************)
EXTENDS Integers, Sequences, FiniteSets, TLC

\* ------------------------------------------------------------------ bounds
MaxCmdLen == 3
MaxPatLen == 3
MaxRules == 2
MaxPathPieces == 3
MaxContainers == 2
MaxCreated == 3
MaxImages == 2
MaxSessions == 1
MaxTime == 2
MaxArgLen == 3
MaxThreads == 3

\* ----------------------------------------------------- Go string helpers
Max(S) == CHOOSE x \in S : \A y \in S : y <= x
Min(S) == CHOOSE x \in S : \A y \in S : x <= y

\* strings.HasPrefix
HasPrefix(s, p) == Len(p) <= Len(s) /\ SubSeq(s, 1, Len(p)) = p
\* strings.HasSuffix
HasSuffix(s, x) == Len(x) <= Len(s) /\ SubSeq(s, Len(s) - Len(x) + 1, Len(s)) = x
\* strings.TrimSuffix
TrimSuffix(s, x) == IF HasSuffix(s, x) THEN SubSeq(s, 1, Len(s) - Len(x)) ELSE s
\* strings.TrimPrefix
TrimPrefix(s, p) == IF HasPrefix(s, p) THEN SubSeq(s, Len(p) + 1, Len(s)) ELSE s
\* strings.Contains
Contains(s, sub) == \E i \in 0..(Len(s) - Len(sub)) : SubSeq(s, i + 1, i + Len(sub)) = sub

\* The white space of the modelled alphabet.
IsSpace(ch) == ch = " "

\* strings.TrimSpace: drops leading and trailing white space.
TrimSpace(s) ==
    LET keep == {i \in 1..Len(s) : ~IsSpace(s[i])}
    IN  IF keep = {} THEN <<>> ELSE SubSeq(s, Min(keep), Max(keep))

\* Index of the last "/" of s, 0 when there is none.
LastSlash(s) ==
    LET at == {i \in 1..Len(s) : s[i] = "/"}
    IN  IF at = {} THEN 0 ELSE Max(at)

\* The components of s between its "/" separators, empty ones included.
RECURSIVE SplitSlash(_)
SplitSlash(s) ==
    LET at == {i \in 1..Len(s) : s[i] = "/"}
    IN  IF at = {} THEN <<s>>
        ELSE <<SubSeq(s, 1, Min(at) - 1)>> \o SplitSlash(SubSeq(s, Min(at) + 1, Len(s)))

RECURSIVE JoinSlash(_)
JoinSlash(comps) ==
    IF comps = <<>> THEN <<>>
    ELSE IF Len(comps) = 1 THEN comps[1]
    ELSE comps[1] \o <<"/">> \o JoinSlash(Tail(comps))

Dot == <<".">>
DotDot == <<".", ".">>

\* The component stack filepath.Clean keeps: "." and empty components are
\* dropped, ".." pops the previous component, a ".." that would climb above
\* a rooted path is dropped, one that climbs above a relative path is kept.
RECURSIVE CleanFold(_, _, _)
CleanFold(comps, out, rooted) ==
    IF comps = <<>> THEN out
    ELSE LET c == Head(comps)
             rest == Tail(comps)
         IN  IF c = <<>> \/ c = Dot THEN CleanFold(rest, out, rooted)
             ELSE IF c = DotDot
                  THEN IF Len(out) > 0 /\ out[Len(out)] # DotDot
                       THEN CleanFold(rest, SubSeq(out, 1, Len(out) - 1), rooted)
                       ELSE IF rooted THEN CleanFold(rest, out, rooted)
                            ELSE CleanFold(rest, Append(out, DotDot), rooted)
                  ELSE CleanFold(rest, Append(out, c), rooted)

\* filepath.Clean
Clean(path) ==
    IF path = <<>> THEN Dot
    ELSE LET rooted == path[1] = "/"
             body == JoinSlash(CleanFold(SplitSlash(path), <<>>, rooted))
             res == (IF rooted THEN <<"/">> ELSE <<>>) \o body
         IN  IF res = <<>> THEN Dot ELSE res

\* filepath.Base: the last element of path, trailing slashes removed first.
Base(path) ==
    IF path = <<>> THEN Dot
    ELSE LET keep == {i \in 1..Len(path) : path[i] # "/"}
         IN  IF keep = {} THEN <<"/">>
             ELSE LET stripped == SubSeq(path, 1, Max(keep))
                  IN  SubSeq(stripped, LastSlash(stripped) + 1, Len(stripped))

\* filepath.Dir: all but the last element of path, cleaned.
Dir(path) == Clean(SubSeq(path, 1, LastSlash(path)))

\* filepath.Match for patterns of "*", "?" and literal characters: "*" is any
\* run of non-separator characters, "?" one non-separator character.
RECURSIVE GoGlob(_, _)
GoGlob(p, s) ==
    IF p = <<>> THEN s = <<>>
    ELSE IF Head(p) = "*"
         THEN \E k \in 0..Len(s) :
                 /\ \A j \in 1..k : s[j] # "/"
                 /\ GoGlob(Tail(p), SubSeq(s, k + 1, Len(s)))
         ELSE IF Head(p) = "?"
              THEN s # <<>> /\ Head(s) # "/" /\ GoGlob(Tail(p), Tail(s))
              ELSE s # <<>> /\ Head(s) = Head(p) /\ GoGlob(Tail(p), Tail(s))

\* bash pattern matching (case, [[ == ]]) for patterns of "*", "?" and
\* literal characters: "*" is any string, "?" any one character.
RECURSIVE ShGlob(_, _)
ShGlob(p, s) ==
    IF p = <<>> THEN s = <<>>
    ELSE IF Head(p) = "*"
         THEN \E k \in 0..Len(s) : ShGlob(Tail(p), SubSeq(s, k + 1, Len(s)))
         ELSE IF Head(p) = "?"
              THEN s # <<>> /\ ShGlob(Tail(p), Tail(s))
              ELSE s # <<>> /\ Head(s) = Head(p) /\ ShGlob(Tail(p), Tail(s))

\* All sequences over S of length at most n.
RECURSIVE SeqsUpTo(_, _)
SeqsUpTo(S, n) ==
    IF n = 0 THEN {<<>>}
    ELSE LET shorter == SeqsUpTo(S, n - 1)
         IN  shorter \cup {Append(q, x) : q \in shorter, x \in S}

\* Concatenation of a sequence of sequences.
RECURSIVE Flatten(_)
Flatten(ss) == IF ss = <<>> THEN <<>> ELSE Head(ss) \o Flatten(Tail(ss))


\* ------------------------------------------------------------ policy engine
\* Characters of commands and of rule patterns.
CmdChars == {"g", " ", "/"}
PatChars == {"g", " ", "*", "?", "/"}
Commands == SeqsUpTo(CmdChars, MaxCmdLen)
Patterns == SeqsUpTo(PatChars, MaxPatLen)

SpaceStar == <<" ", "*">>
Star == <<"*">>

\* The PolicyAction values the engine returns.
ActionAllow == "allow"
ActionBlock == "block"
NoRule == [list |-> "none", index |-> 0]

\* matchPattern: a pattern ending in " *" matches its prefix as a word; when
\* that test misses, control falls through to the tests below it.
matchPattern(pattern, command) ==
    IF /\ HasSuffix(pattern, SpaceStar)
       /\ LET prefix == TrimSuffix(pattern, SpaceStar)
          IN  command = prefix \/ HasPrefix(command, prefix \o <<" ">>)
    THEN TRUE
    ELSE IF HasPrefix(pattern, Star)
         THEN HasSuffix(command, TrimPrefix(pattern, Star))
         ELSE IF command = pattern THEN TRUE
              ELSE GoGlob(pattern, command)

\* The scan of a rule list going on to the last rule that matches.
FirstMatch_LastWins(list, command) ==
    LET hit == {i \in 1..Len(list) : matchPattern(list[i].pattern, command)}
    IN  IF hit = {} THEN 0 ELSE Max(hit)

\* Index of the first rule of the list whose pattern matches, 0 when none.
FirstMatch(list, command) ==
    LET hit == {i \in 1..Len(list) : matchPattern(list[i].pattern, command)}
    IN  IF hit = {} THEN 0 ELSE Min(hit)

NotInAllowlist == "Command not in allowlist"

\* EvaluateCommand scanning the allow rules before the block rules.
EvaluateCommand_AllowFirst(cfg, command) ==
    LET c == TrimSpace(command)
        b == FirstMatch(cfg.block, c)
        a == FirstMatch(cfg.allow, c)
    IN  IF a > 0
        THEN [Allowed |-> TRUE, Action |-> ActionAllow,
              Rule |-> [list |-> "allow", index |-> a], Reason |-> ""]
        ELSE IF b > 0
             THEN [Allowed |-> FALSE, Action |-> ActionBlock,
                   Rule |-> [list |-> "block", index |-> b], Reason |-> cfg.block[b].reason]
             ELSE [Allowed |-> FALSE, Action |-> ActionBlock, Rule |-> NoRule,
                   Reason |-> NotInAllowlist]

\* EvaluateCommand allowing what no rule matches.
EvaluateCommand_DefaultAllow(cfg, command) ==
    LET c == TrimSpace(command)
        b == FirstMatch(cfg.block, c)
    IN  IF b > 0
        THEN [Allowed |-> FALSE, Action |-> ActionBlock,
              Rule |-> [list |-> "block", index |-> b], Reason |-> cfg.block[b].reason]
        ELSE [Allowed |-> TRUE, Action |-> ActionAllow, Rule |-> NoRule, Reason |-> ""]

\* Engine.EvaluateCommand: trim, first matching block rule, else first
\* matching allow rule, else blocked.
EvaluateCommand(cfg, command) ==
    LET c == TrimSpace(command)
        b == FirstMatch(cfg.block, c)
        a == FirstMatch(cfg.allow, c)
    IN  IF b > 0
        THEN [Allowed |-> FALSE, Action |-> ActionBlock,
              Rule |-> [list |-> "block", index |-> b], Reason |-> cfg.block[b].reason]
        ELSE IF a > 0
             THEN [Allowed |-> TRUE, Action |-> ActionAllow,
                   Rule |-> [list |-> "allow", index |-> a], Reason |-> ""]
             ELSE [Allowed |-> FALSE, Action |-> ActionBlock, Rule |-> NoRule,
                   Reason |-> NotInAllowlist]

\* DefaultConfig with curl among the allowed tools.
DefaultConfig_AllowsCurl ==
    [allow |-> <<
        [pattern |-> <<"g", "i", "t", " ", "*">>, reason |-> ""],
        [pattern |-> <<"n", "p", "m", " ", "*">>, reason |-> ""],
        [pattern |-> <<"n", "o", "d", "e", " ", "*">>, reason |-> ""],
        [pattern |-> <<"p", "y", "t", "h", "o", "n", " ", "*">>, reason |-> ""],
        [pattern |-> <<"p", "i", "p", " ", "*">>, reason |-> ""],
        [pattern |-> <<"g", "o", " ", "*">>, reason |-> ""],
        [pattern |-> <<"c", "a", "r", "g", "o", " ", "*">>, reason |-> ""],
        [pattern |-> <<"m", "a", "k", "e", " ", "*">>, reason |-> ""],
        [pattern |-> <<"c", "a", "t", " ", "*">>, reason |-> ""],
        [pattern |-> <<"l", "s", " ", "*">>, reason |-> ""],
        [pattern |-> <<"f", "i", "n", "d", " ", "*">>, reason |-> ""],
        [pattern |-> <<"g", "r", "e", "p", " ", "*">>, reason |-> ""],
        [pattern |-> <<"c", "u", "r", "l", " ", "*">>, reason |-> ""]>>,
     block |-> <<
        [pattern |-> <<"s", "u", "d", "o", " ", "*">>,
         reason |-> "Privilege escalation not allowed"],
        [pattern |-> <<"r", "m", " ", "-", "r", "f", " ", "/">>,
         reason |-> "Root filesystem deletion blocked"],
        [pattern |-> <<"r", "m", " ", "-", "r", "f", " ", "/", "*">>,
         reason |-> "Root filesystem deletion blocked"],
        [pattern |-> <<"c", "h", "m", "o", "d", " ", "7", "7", "7", " ", "*">>,
         reason |-> "Overly permissive permissions blocked"],
        [pattern |-> <<"c", "u", "r", "l", " ", "*", " ", "|", " ", "s", "h">>,
         reason |-> "Remote code execution blocked"],
        [pattern |-> <<"c", "u", "r", "l", " ", "*", " ", "|", " ", "b", "a", "s", "h">>,
         reason |-> "Remote code execution blocked"],
        [pattern |-> <<"w", "g", "e", "t", " ", "*", " ", "|", " ", "s", "h">>,
         reason |-> "Remote code execution blocked"],
        [pattern |-> <<"d", "d", " ", "i", "f", "=", "*">>,
         reason |-> "Raw disk access blocked"],
        [pattern |-> <<"m", "k", "f", "s", ".", "*">>,
         reason |-> "Filesystem formatting blocked"],
        [pattern |-> <<":", "(", ")", "{", " ", ":", "|", ":", "&", " ", "}", ";", ":">>,
         reason |-> "Fork bomb blocked"]>>]

\* config.DefaultConfig: the rules a project without a configuration file gets.
DefaultConfig ==
    [allow |-> <<
        [pattern |-> <<"g", "i", "t", " ", "*">>, reason |-> ""],
        [pattern |-> <<"n", "p", "m", " ", "*">>, reason |-> ""],
        [pattern |-> <<"n", "o", "d", "e", " ", "*">>, reason |-> ""],
        [pattern |-> <<"p", "y", "t", "h", "o", "n", " ", "*">>, reason |-> ""],
        [pattern |-> <<"p", "i", "p", " ", "*">>, reason |-> ""],
        [pattern |-> <<"g", "o", " ", "*">>, reason |-> ""],
        [pattern |-> <<"c", "a", "r", "g", "o", " ", "*">>, reason |-> ""],
        [pattern |-> <<"m", "a", "k", "e", " ", "*">>, reason |-> ""],
        [pattern |-> <<"c", "a", "t", " ", "*">>, reason |-> ""],
        [pattern |-> <<"l", "s", " ", "*">>, reason |-> ""],
        [pattern |-> <<"f", "i", "n", "d", " ", "*">>, reason |-> ""],
        [pattern |-> <<"g", "r", "e", "p", " ", "*">>, reason |-> ""]>>,
     block |-> <<
        [pattern |-> <<"s", "u", "d", "o", " ", "*">>,
         reason |-> "Privilege escalation not allowed"],
        [pattern |-> <<"r", "m", " ", "-", "r", "f", " ", "/">>,
         reason |-> "Root filesystem deletion blocked"],
        [pattern |-> <<"r", "m", " ", "-", "r", "f", " ", "/", "*">>,
         reason |-> "Root filesystem deletion blocked"],
        [pattern |-> <<"c", "h", "m", "o", "d", " ", "7", "7", "7", " ", "*">>,
         reason |-> "Overly permissive permissions blocked"],
        [pattern |-> <<"c", "u", "r", "l", " ", "*", " ", "|", " ", "s", "h">>,
         reason |-> "Remote code execution blocked"],
        [pattern |-> <<"c", "u", "r", "l", " ", "*", " ", "|", " ", "b", "a", "s", "h">>,
         reason |-> "Remote code execution blocked"],
        [pattern |-> <<"w", "g", "e", "t", " ", "*", " ", "|", " ", "s", "h">>,
         reason |-> "Remote code execution blocked"],
        [pattern |-> <<"d", "d", " ", "i", "f", "=", "*">>,
         reason |-> "Raw disk access blocked"],
        [pattern |-> <<"m", "k", "f", "s", ".", "*">>,
         reason |-> "Filesystem formatting blocked"],
        [pattern |-> <<":", "(", ")", "{", " ", ":", "|", ":", "&", " ", "}", ";", ":">>,
         reason |-> "Fork bomb blocked"]>>]

\* The commands the default rules name as dangerous, with every argument
\* string of the bounds: sudo <args>, rm -rf /, rm -rf /*, chmod 777 <args>,
\* curl <args> | sh, curl <args> | bash.
ArgChars == {"a", " ", "/", "|"}
ArgStrings == SeqsUpTo(ArgChars, MaxArgLen)
DangerousCommands ==
    {<<"s", "u", "d", "o", " ">> \o a : a \in ArgStrings}
    \cup {<<"r", "m", " ", "-", "r", "f", " ", "/">>, <<"r", "m", " ", "-", "r", "f", " ", "/", "*">>}
    \cup {<<"c", "h", "m", "o", "d", " ", "7", "7", "7", " ">> \o a : a \in ArgStrings}
    \cup {<<"c", "u", "r", "l", " ">> \o a \o <<" ", "|", " ", "s", "h">> : a \in ArgStrings}
    \cup {<<"c", "u", "r", "l", " ">> \o a \o <<" ", "|", " ", "b", "a", "s", "h">> : a \in ArgStrings}

\* /bin/bash -c runs a command list segment by segment: the list is cut at
\* ';', '|' (so at '||' too) and '&&'.
RECURSIVE SplitSegments(_, _)
SplitSegments(cmd, cur) ==
    IF cmd = <<>> THEN <<cur>>
    ELSE IF cmd[1] \in {";", "|"} THEN <<cur>> \o SplitSegments(Tail(cmd), <<>>)
    ELSE IF Len(cmd) >= 2 /\ cmd[1] = "&" /\ cmd[2] = "&"
         THEN <<cur>> \o SplitSegments(SubSeq(cmd, 3, Len(cmd)), <<>>)
         ELSE SplitSegments(Tail(cmd), Append(cur, cmd[1]))
Segments(cmd) ==
    LET parts == SplitSegments(cmd, <<>>)
    IN  {TrimSpace(parts[i]) : i \in 1..Len(parts)} \ {<<>>}

\* Command lists: a command of an allowlisted tool, a separator, a second
\* command.
ChainHeads ==
    {<<"g", "i", "t", " ", "a">>, <<"l", "s", " ", "a">>, <<"c", "a", "t", " ", "a">>,
     <<"n", "p", "m", " ", "a">>, <<"e", "c", "h", "o", " ", "a">>}
ChainSeparators ==
    {<<";">>, <<" ", ";", " ">>, <<" ", "&", "&", " ">>, <<"&", "&">>, <<" ", "|", "|", " ">>,
     <<" ", "|", " ">>}
ChainTails ==
    {<<"s", "u", "d", "o", " ", "s", "u">>, <<"s", "u", "d", "o", " ", "a">>,
     <<"r", "m", " ", "-", "r", "f", " ", "/">>,
     <<"c", "h", "m", "o", "d", " ", "7", "7", "7", " ", "a">>, <<"l", "s", " ", "a">>}
ChainedCommands ==
    {h \o sep \o t : h \in ChainHeads, sep \in ChainSeparators, t \in ChainTails}

\* --------------------------------------------------------- policy artifact
\* JSON values of the artifact: null or an array; a rule object with or
\* without its "reason" key.
JsonNull == [kind |-> "null", items |-> <<>>]
JsonArray(items) == [kind |-> "array", items |-> items]

\* policyRule with `json:"reason,omitempty"`: an empty reason has no key.
PolicyRuleJson(pattern, reason) ==
    [pattern |-> pattern, hasReason |-> reason # "", reason |-> reason]

\* A nil slice marshals to null, a non-empty one to an array.
SliceJson(items) == IF items = <<>> THEN JsonNull ELSE JsonArray(items)

NoFile == [exists |-> FALSE, allow |-> JsonNull, block |-> JsonNull]

\* generatePolicyMount: the pattern of every allow rule, the pattern and
\* reason of every block rule, written as policy.json.
generatePolicyMount(cfg) ==
    [exists |-> TRUE,
     allow |-> SliceJson([i \in 1..Len(cfg.allow) |-> PolicyRuleJson(cfg.allow[i].pattern, "")]),
     block |-> SliceJson([i \in 1..Len(cfg.block) |->
                             PolicyRuleJson(cfg.block[i].pattern, cfg.block[i].reason)])]

\* jq '. | length': null has length 0.
JqLength(v) == IF v.kind = "null" THEN 0 ELSE Len(v.items)
\* jq -r '.[i].pattern' (i counted from 1 here)
JqPattern(v, i) == v.items[i].pattern
\* jq -r '.[i].reason // "Blocked by policy"'
JqReason(v, i) == IF v.items[i].hasReason THEN v.items[i].reason ELSE "Blocked by policy"

\* ------------------------------------------------- in-container policy shell
\* match_pattern of claudeshield-shell.sh: each of the first two forms
\* decides alone (return 0 or return 1).
match_pattern(pattern, cmd) ==
    IF HasSuffix(pattern, SpaceStar)
    THEN LET prefix == SubSeq(pattern, 1, Len(pattern) - 2)
         IN  cmd = prefix \/ HasPrefix(cmd, prefix \o <<" ">>)
    ELSE IF HasPrefix(pattern, Star)
         THEN HasSuffix(cmd, Tail(pattern))
         ELSE IF cmd = pattern THEN TRUE
              ELSE ShGlob(pattern, cmd)

ShFirstMatch(v, cmd) ==
    LET hit == {i \in 1..JqLength(v) : match_pattern(JqPattern(v, i), cmd)}
    IN  IF hit = {} THEN 0 ELSE Min(hit)

NoLog == [action |-> "none", reason |-> ""]

\* check_policy scanning the allow rules before the block rules.
check_policy_AllowFirst(file, cmd) ==
    IF ~file.exists THEN [rc |-> 0, log |-> NoLog]
    ELSE LET b == ShFirstMatch(file.block, cmd)
             a == ShFirstMatch(file.allow, cmd)
         IN  IF a > 0 THEN [rc |-> 0, log |-> [action |-> "allow", reason |-> ""]]
             ELSE IF b > 0
                  THEN [rc |-> 1, log |-> [action |-> "block", reason |-> JqReason(file.block, b)]]
                  ELSE [rc |-> 1, log |-> [action |-> "block", reason |-> NotInAllowlist]]

\* check_policy: no file, allow; first matching block rule, deny; first
\* matching allow rule, allow; else deny.  rc is the function's status.
check_policy(file, cmd) ==
    IF ~file.exists THEN [rc |-> 0, log |-> NoLog]
    ELSE LET b == ShFirstMatch(file.block, cmd)
             a == ShFirstMatch(file.allow, cmd)
         IN  IF b > 0
             THEN [rc |-> 1, log |-> [action |-> "block", reason |-> JqReason(file.block, b)]]
             ELSE IF a > 0 THEN [rc |-> 0, log |-> [action |-> "allow", reason |-> ""]]
                  ELSE [rc |-> 1, log |-> [action |-> "block", reason |-> NotInAllowlist]]

\* Exit status of a denied command.
ExitDenied == 126
\* Exit status standing for "replaced by /bin/bash": bash's own status.
ExitBash == 0

NoRun == [mode |-> "none", checked |-> FALSE, executed |-> FALSE, exit |-> 0,
          log |-> NoLog]

\* The script's dispatch on "$1": with -c the command is checked and then
\* either refused with 126 or handed to /bin/bash -c; otherwise the arguments
\* go to /bin/bash as they are.
ShellMain(file, mode, cmd) ==
    IF mode = "-c"
    THEN LET r == check_policy(file, cmd)
         IN  IF r.rc # 0
             THEN [mode |-> mode, checked |-> TRUE, executed |-> FALSE,
                   exit |-> ExitDenied, log |-> r.log]
             ELSE [mode |-> mode, checked |-> TRUE, executed |-> TRUE,
                   exit |-> ExitBash, log |-> r.log]
    ELSE [mode |-> mode, checked |-> FALSE, executed |-> TRUE, exit |-> ExitBash,
          log |-> NoLog]


\* ------------------------------------------------------------- file access
WorkspaceRoot == <<"/", "w", "o", "r", "k", "s", "p", "a", "c", "e">>
DotEnv == <<".", "e", "n", "v">>
DotEnvDot == <<".", "e", "n", "v", ".">>
DotSsh == <<".", "s", "s", "h">>
DotAws == <<".", "a", "w", "s">>
DotGnupg == <<".", "g", "n", "u", "p", "g">>
ConfigJson == <<"c", "o", "n", "f", "i", "g", ".", "j", "s", "o", "n">>
DotDocker == <<".", "d", "o", "c", "k", "e", "r">>

\* sensitiveFiles
sensitiveFiles ==
    {DotEnv,
     <<".", "n", "p", "m", "r", "c">>,
     <<".", "p", "y", "p", "i", "r", "c">>,
     <<".", "b", "a", "s", "h", "_", "h", "i", "s", "t", "o", "r", "y">>,
     <<".", "z", "s", "h", "_", "h", "i", "s", "t", "o", "r", "y">>,
     <<".", "g", "i", "t", "c", "o", "n", "f", "i", "g">>,
     <<"i", "d", "_", "r", "s", "a">>,
     <<"i", "d", "_", "e", "d", "2", "5", "5", "1", "9">>}

\* sensitiveParents
sensitiveParents == {DotSsh, DotAws, DotGnupg}

\* The glob list of the earlier EvaluateFileAccess.
sensitivePatterns ==
    {<<"*", "/", ".", "e", "n", "v">>,
     <<"*", "/", ".", "e", "n", "v", ".", "*">>,
     <<"*", "/", ".", "s", "s", "h", "/", "*">>,
     <<"*", "/", ".", "a", "w", "s", "/", "*">>,
     <<"*", "/", ".", "g", "n", "u", "p", "g", "/", "*">>,
     <<"*", "/", ".", "d", "o", "c", "k", "e", "r", "/", "c", "o", "n", "f", "i", "g", ".", "j", "s", "o", "n">>,
     <<"*", "/", "i", "d", "_", "r", "s", "a">>,
     <<"*", "/", "i", "d", "_", "e", "d", "2", "5", "5", "1", "9">>,
     <<"*", "/", ".", "b", "a", "s", "h", "_", "h", "i", "s", "t", "o", "r", "y">>,
     <<"*", "/", ".", "z", "s", "h", "_", "h", "i", "s", "t", "o", "r", "y">>,
     <<"*", "/", ".", "g", "i", "t", "c", "o", "n", "f", "i", "g">>,
     <<"*", "/", ".", "n", "p", "m", "r", "c">>,
     <<"*", "/", ".", "p", "y", "p", "i", "r", "c">>}

SensitiveReason == "Access to sensitive file blocked: "
OutsideReason == "Access outside workspace blocked: "

\* The reason of a file result is ReasonText followed by ReasonPath.
FileBlocked(text, path) ==
    [Allowed |-> FALSE, Action |-> ActionBlock, ReasonText |-> text, ReasonPath |-> path]
FileAllowed == [Allowed |-> TRUE, Action |-> ActionAllow, ReasonText |-> "", ReasonPath |-> <<>>]

\* EvaluateFileAccess as first written: filepath.Match of the whole path
\* against the glob list, then the workspace prefix.
EvaluateFileAccess_GlobList(path) ==
    IF \E pattern \in sensitivePatterns : GoGlob(pattern, path)
    THEN FileBlocked(SensitiveReason, path)
    ELSE IF HasPrefix(path, WorkspaceRoot) THEN FileAllowed
         ELSE FileBlocked(OutsideReason, path)

\* Engine.EvaluateFileAccess: sensitive base name, ".env." variants,
\* sensitive parent directory, Docker's config.json, then the workspace
\* prefix, else blocked.
EvaluateFileAccess(path) ==
    LET base == Base(path)
        dir == Dir(path)
    IN  IF base \in sensitiveFiles THEN FileBlocked(SensitiveReason, path)
        ELSE IF HasPrefix(base, DotEnvDot) THEN FileBlocked(SensitiveReason, path)
        ELSE IF \E sd \in sensitiveParents :
                   Base(dir) = sd \/ Contains(path, <<"/">> \o sd \o <<"/">>)
             THEN FileBlocked(SensitiveReason, path)
        ELSE IF base = ConfigJson /\ Contains(path, DotDocker)
             THEN FileBlocked(SensitiveReason, path)
        ELSE IF HasPrefix(path, WorkspaceRoot) THEN FileAllowed
        ELSE FileBlocked(OutsideReason, path)

\* The pieces file paths are put together from.
PathPieces ==
    {WorkspaceRoot, <<"/">>, <<"/", "x">>, <<"/">> \o DotEnv, <<".", "p">>,
     <<"/">> \o DotSsh, DotSsh, DotEnv, <<"2">>, <<"/", ".", ".">>}
Paths == {Flatten(ps) : ps \in SeqsUpTo(PathPieces, MaxPathPieces)}


\* ---------------------------------------------------------- Docker daemon
\* The daemon's containers are a function from container id to a record; a
\* removed container leaves the domain.  Ids are never reused.
Agents == {"a", "b"}
\* Readings of the wall clock in milliseconds (time.Now().UnixMilli()): the
\* code reads it anew at every use and nothing relates two readings.
Times == 1..MaxTime

\* Image id of SandboxImage; committed images are numbered from 1.
SandboxImage == 0

\* A directory: the project directory, or an agent's worktree below it.
ProjectDir == [base |-> "project", worktree |-> ""]
WorktreeDirOf(agentName) == [base |-> "project", worktree |-> agentName]
NoDir == [base |-> "", worktree |-> ""]

\* The sandbox section of the configuration the process loaded (cfg.Sandbox),
\* which every CreateSession of the process is given: Network is false unless
\* the configuration file sets it.
VARIABLE sandbox
SandboxConfigs == [Network : BOOLEAN]
DefaultSandbox == [Network |-> FALSE]

\* A HostConfig that drops no capability.
SessionHostConfig_KeepsCapabilities(projectDir, withPolicy) ==
    [workspace |-> projectDir, policyMount |-> withPolicy, noNewPrivileges |-> TRUE,
     capDrop |-> {}, capAdd |-> {"CHOWN", "DAC_OVERRIDE", "FOWNER", "SETGID", "SETUID"},
     networkMode |-> IF sandbox.Network THEN "default" ELSE "none",
     memory |-> "2g", cpus |-> "2.0"]

\* HostConfig as CreateSession builds it from the sandbox settings (the
\* default limits; NetworkMode is left to the daemon's default when the
\* network is enabled), and the nil HostConfig.
SessionHostConfig(projectDir, withPolicy) ==
    [workspace |-> projectDir, policyMount |-> withPolicy, noNewPrivileges |-> TRUE,
     capDrop |-> {"ALL"}, capAdd |-> {"CHOWN", "DAC_OVERRIDE", "FOWNER", "SETGID", "SETUID"},
     networkMode |-> IF sandbox.Network THEN "default" ELSE "none",
     memory |-> "2g", cpus |-> "2.0"]
NilHostConfig ==
    [workspace |-> NoDir, policyMount |-> FALSE, noNewPrivileges |-> FALSE,
     capDrop |-> {}, capAdd |-> {}, networkMode |-> "default", memory |-> "", cpus |-> ""]

\* ContainerStop: no such container is an error; a stopped one stays stopped.
ContainerStopOk(cs, id, envFails) == id \in DOMAIN cs /\ ~envFails
ContainerStopped(cs, id) == [cs EXCEPT ![id].state = "exited"]

\* ContainerRemove without force: a missing or a running container is an error.
ContainerRemoveOk(cs, id, envFails) ==
    id \in DOMAIN cs /\ cs[id].state # "running" /\ ~envFails
ContainerRemoved(cs, id) == [x \in DOMAIN cs \ {id} |-> cs[x]]

\* ContainerCreate: a name may be held by one container at a time.
ContainerCreateOk(cs, name, envFails) ==
    (\A x \in DOMAIN cs : cs[x].name # name) /\ ~envFails
ContainerCreated(cs, id, name, image, labels, hostCfg) ==
    [x \in DOMAIN cs \cup {id} |->
        IF x = id
        THEN [name |-> name, image |-> image, labels |-> labels, hostCfg |-> hostCfg,
              state |-> "created"]
        ELSE cs[x]]
ContainerStarted(cs, id) == [cs EXCEPT ![id].state = "running"]

\* ----------------------------------------------------------- sandbox engine
SessionRunning == "running"
SessionStopped == "stopped"
SessionPaused == "paused"

SessionIdOf(agentName, ms) == [agent |-> agentName, ms |-> ms]

\* Engine.CreateSession.  env names the step the environment fails ("ok" for
\* none): "image" (ensureImage), "policy" (writing policy.json), "create",
\* "start".  The result carries the error, the daemon's containers afterwards
\* and the Session.  A container that fails to start stays created.
CreateSessionCall(cs, id, projectDir, agentName, ms, withPolicy, env) ==
    LET sessionID == SessionIdOf(agentName, ms)
        labels == [managed |-> TRUE, session |-> sessionID, agent |-> agentName,
                   project |-> projectDir]
        made == ContainerCreated(cs, id, sessionID, SandboxImage, labels,
                                 SessionHostConfig(projectDir, withPolicy))
        none == [ID |-> sessionID, ProjectDir |-> NoDir, ContainerID |-> 0,
                 State |-> "", AgentName |-> "", WorktreeDir |-> NoDir]
    IN  IF env = "image" THEN [err |-> "pulling sandbox image", cs |-> cs, session |-> none]
        ELSE IF withPolicy /\ env = "policy"
             THEN [err |-> "generating policy file", cs |-> cs, session |-> none]
        ELSE IF ~ContainerCreateOk(cs, sessionID, env = "create")
             THEN [err |-> "creating container", cs |-> cs, session |-> none]
        ELSE IF env = "start"
             THEN [err |-> "starting container", cs |-> made, session |-> none]
        ELSE [err |-> "", cs |-> ContainerStarted(made, id),
              session |-> [ID |-> sessionID, ProjectDir |-> projectDir, ContainerID |-> id,
                           State |-> SessionRunning, AgentName |-> agentName,
                           WorktreeDir |-> NoDir]]

\* Every Engine the commands build carries the logger audit.NewLogger
\* returned; a command whose logger cannot be opened builds no Engine.
AuditorAttached == TRUE

\* The AuditEntry StopSession logs, if the engine has an auditor.
StopAuditEntry(session) ==
    [EventType |-> "session_stopped", SessionID |-> session.ID,
     AgentName |-> session.AgentName, Action |-> ActionAllow]
StopAudit(session) == IF AuditorAttached THEN <<StopAuditEntry(session)>> ELSE <<>>

\* A StopSession that goes on when the container cannot be removed.
StopSessionCall_IgnoresRemove(cs, session, env) ==
    IF ~ContainerStopOk(cs, session.ContainerID, env = "stop")
    THEN [err |-> "stopping container", cs |-> cs, session |-> session, audit |-> <<>>]
    ELSE LET stopped == ContainerStopped(cs, session.ContainerID)
         IN  [err |-> "",
              cs |-> IF ContainerRemoveOk(stopped, session.ContainerID, env = "remove")
                     THEN ContainerRemoved(stopped, session.ContainerID) ELSE stopped,
              session |-> [session EXCEPT !.State = SessionStopped],
              audit |-> StopAudit(session)]

\* Engine.StopSession.  env names the failing step: "stop", "remove" or "ok".
StopSessionCall(cs, session, env) ==
    IF ~ContainerStopOk(cs, session.ContainerID, env = "stop")
    THEN [err |-> "stopping container", cs |-> cs, session |-> session, audit |-> <<>>]
    ELSE LET stopped == ContainerStopped(cs, session.ContainerID)
         IN  IF ~ContainerRemoveOk(stopped, session.ContainerID, env = "remove")
             THEN [err |-> "removing container", cs |-> stopped, session |-> session,
                   audit |-> <<>>]
             ELSE [err |-> "", cs |-> ContainerRemoved(stopped, session.ContainerID),
                   session |-> [session EXCEPT !.State = SessionStopped],
                   audit |-> StopAudit(session)]

\* The session ListSessions builds from a container's labels and state.
SessionOfContainer(cs, id) ==
    [ID |-> cs[id].labels.session, ProjectDir |-> cs[id].labels.project,
     ContainerID |-> id,
     State |-> IF cs[id].state = "exited" THEN SessionStopped
               ELSE IF cs[id].state = "paused" THEN SessionPaused ELSE SessionRunning,
     AgentName |-> cs[id].labels.agent, WorktreeDir |-> NoDir]

\* Engine.ListSessions: the containers bearing the management label, in the
\* daemon's order (newest first), as a sequence of container ids.
RECURSIVE NewestFirst(_)
NewestFirst(ids) == IF ids = {} THEN <<>> ELSE <<Max(ids)>> \o NewestFirst(ids \ {Max(ids)})
ListSessions(cs) == NewestFirst({id \in DOMAIN cs : cs[id].labels.managed})

\* strings.Join(cmd, " ").
RECURSIVE Join(_)
Join(cmd) ==
    IF cmd = <<>> THEN <<>>
    ELSE IF Len(cmd) = 1 THEN cmd[1]
         ELSE cmd[1] \o <<" ">> \o Join(Tail(cmd))

\* Argument vectors of ExecCommand: one or two non-empty arguments without
\* spaces in them.
Arguments == SeqsUpTo(CmdChars \ {" "}, MaxCmdLen) \ {<<>>}
Argvs ==
    {cmd \in SeqsUpTo(Arguments, 2) : cmd # <<>> /\ Len(Join(cmd)) <= MaxCmdLen}

\* The first Docker call of ExecCommand that fails, or "ok".
ExecEnvs == {"ok", "create", "attach", "read"}

WorkspaceDir == "/workspace"
NoExec == [err |-> "", result |-> [Allowed |-> FALSE, Action |-> "none", Rule |-> NoRule, Reason |-> ""],
           calls |-> <<>>, audit |-> <<>>, execs |-> <<>>, ran |-> <<>>]

\* The AuditEntry ExecCommand logs for a policy result.
ExecAuditEntry(cfg, commandStr, result) ==
    [EventType |-> "command_exec", Command |-> commandStr,
     Action |-> result.Action, Reason |-> result.Reason,
     RulePattern |-> IF result.Rule = NoRule THEN <<>>
                     ELSE cfg[result.Rule.list][result.Rule.index].pattern]

\* The Docker half of ExecCommand: ContainerExecCreate, ContainerExecAttach,
\* read of the output. r is the outcome so far.
ExecInContainer(r, cmd, env) ==
    LET exec == [Cmd |-> cmd, WorkingDir |-> WorkspaceDir]
    IN  IF env = "create"
        THEN [r EXCEPT !.err = "creating exec", !.calls = @ \o <<"ContainerExecCreate">>]
        ELSE IF env = "attach"
             THEN [r EXCEPT !.err = "attaching to exec", !.execs = <<exec>>,
                            !.calls = @ \o <<"ContainerExecCreate", "ContainerExecAttach">>]
             ELSE [r EXCEPT !.err = IF env = "read" THEN "reading exec output" ELSE "",
                            !.execs = <<exec>>, !.ran = <<exec>>,
                            !.calls = @ \o <<"ContainerExecCreate", "ContainerExecAttach">>]

\* ExecCommand running what the policy blocked: the return on a blocked
\* result is left out.
ExecCommandCall_RunsBlocked(cfg, hasPolicy, hasAuditor, cmd, env) ==
    LET commandStr == Join(cmd)
        result == EvaluateCommand(cfg, commandStr)
        evaluated == [NoExec EXCEPT !.result = result, !.calls = <<"EvaluateCommand">>]
        logged == IF hasAuditor
                  THEN [evaluated EXCEPT !.audit = <<ExecAuditEntry(cfg, commandStr, result)>>,
                                         !.calls = @ \o <<"Log">>]
                  ELSE evaluated
    IN  IF hasPolicy THEN ExecInContainer(logged, cmd, env)
        ELSE ExecInContainer(NoExec, cmd, env)

\* Engine.ExecCommand: with a policy engine the joined command is evaluated
\* and the result logged, a blocked command returns there; then the exec is
\* created with working directory /workspace, attached and read. The outcome
\* lists the calls made in order, the audit entries logged, the execs created
\* in the container and the execs that ran.
ExecCommandCall(cfg, hasPolicy, hasAuditor, cmd, env) ==
    LET commandStr == Join(cmd)
        result == EvaluateCommand(cfg, commandStr)
        evaluated == [NoExec EXCEPT !.result = result, !.calls = <<"EvaluateCommand">>]
        logged == IF hasAuditor
                  THEN [evaluated EXCEPT !.audit = <<ExecAuditEntry(cfg, commandStr, result)>>,
                                         !.calls = @ \o <<"Log">>]
                  ELSE evaluated
    IN  IF hasPolicy
        THEN IF ~result.Allowed
             THEN [logged EXCEPT !.err = "policy blocked"]
             ELSE ExecInContainer(logged, cmd, env)
        ELSE ExecInContainer(NoExec, cmd, env)

\* ------------------------------------------------------------- git worktrees
\* createWorktree: prune, remove a leftover directory, delete and re-create
\* the agent's branch, then git worktree add, the one step whose failure is
\* reported.  wts are the agents whose worktree directory exists, brs the
\* agents whose branch exists.
createWorktree(wts, brs, agentName, addFails) ==
    IF addFails
    THEN [err |-> "git worktree add", worktrees |-> wts \ {agentName},
          branches |-> brs \cup {agentName}]
    ELSE [err |-> "", worktrees |-> wts \cup {agentName},
          branches |-> brs \cup {agentName}]

\* removeWorktree: git worktree remove --force; the branch is not touched.
removeWorktree(wts, agentName, fails) == IF fails THEN wts ELSE wts \ {agentName}

\* mergeWorktree: commits in the worktree and deletes the branch with -d on a
\* best-effort basis (git refuses while the worktree has it checked out);
\* git merge is the one step whose failure is reported.
mergeWorktree(agentName, mergeFails) == IF mergeFails THEN "merge failed" ELSE ""

\* The work of an agent as the repository holds it: a change the agent
\* committed on its branch, a change it left uncommitted in its worktree.
Changes == {"committed", "uncommitted"}

\* The repository's content: per agent the changes committed on its branch
\* and whether its worktree holds an uncommitted change, and the agents'
\* changes the branch checked out in the project directory contains.
NoWork ==
    [branch |-> [a \in Agents |-> {}], dirty |-> [a \in Agents |-> FALSE], main |-> {}]

\* filepath.Join(projectDir, ".claudeshield", "worktrees", agentName): the
\* agent's worktree when projectDir is the project, and a directory nothing
\* created when projectDir is itself a worktree.
NestedDir == [base |-> "project", worktree |-> "nested"]
JoinWorktreeDir(projectDir, agentName) ==
    IF projectDir = ProjectDir THEN WorktreeDirOf(agentName) ELSE NestedDir

\* git -C dir add -A and git -C dir commit, errors ignored: in an agent's
\* worktree the uncommitted change goes onto its branch, anywhere else git
\* cannot change to the directory and nothing happens.
CommitAll(repo, wts, dir) ==
    IF dir.worktree \in wts /\ repo.dirty[dir.worktree]
    THEN [repo EXCEPT !.branch[dir.worktree] = @ \cup {"uncommitted"},
                      !.dirty[dir.worktree] = FALSE]
    ELSE repo

\* git -C projectDir merge --no-ff branch: in the project the checked out
\* branch receives the agent's commits; in the agent's worktree the branch
\* is merged into itself, "Already up to date".
MergeBranch(repo, projectDir, agentName) ==
    IF projectDir = ProjectDir
    THEN [repo EXCEPT !.main = @ \cup {<<agentName, c>> : c \in repo.branch[agentName]}]
    ELSE repo

\* The content after a mergeWorktree(projectDir, agentName) that succeeded.
mergeWorktreeContent(repo, wts, projectDir, agentName) ==
    MergeBranch(CommitAll(repo, wts, JoinWorktreeDir(projectDir, agentName)),
                projectDir, agentName)

\* git worktree remove --force throws the uncommitted change away.
removeWorktreeContent(repo, agentName, fails) ==
    IF fails THEN repo ELSE [repo EXCEPT !.dirty[agentName] = FALSE]

\* createWorktree removes a leftover directory and, when it succeeds, has
\* deleted the branch and created it again from HEAD.
createWorktreeContent(repo, agentName, addFails) ==
    IF addFails THEN [repo EXCEPT !.dirty[agentName] = FALSE]
    ELSE [repo EXCEPT !.dirty[agentName] = FALSE, !.branch[agentName] = {}]

\* ------------------------------------------------------------ orchestrator
NoSession ==
    [ID |-> SessionIdOf("", 0), ProjectDir |-> NoDir, ContainerID |-> 0,
     State |-> "", AgentName |-> "", WorktreeDir |-> NoDir]

\* A Go map as a function: no entry, assignment, delete.
EmptyMap == [k \in {} |-> 0]
MapPut(m, key, val) == [k \in DOMAIN m \cup {key} |-> IF k = key THEN val ELSE m[k]]
MapDelete(m, key) == [k \in DOMAIN m \ {key} |-> m[k]]

ErrAlreadyExists == "already exists"

\* What the environment can do to one SpawnAgent: the step it fails ("ok" for
\* none: git worktree add, or a step of CreateSession), and whether the
\* cleaning up of the worktree fails too.
SpawnEnvs == [fails : {"ok", "worktree", "image", "create", "start"}, cleanup : BOOLEAN]

\* SpawnAgent without its test for an existing entry.
SpawnAgentCall_NoExistsCheck(sess, cs, wts, brs, id, agentName, ms, env) ==
    LET wt == createWorktree(wts, brs, agentName, env.fails = "worktree")
        r == CreateSessionCall(cs, id, WorktreeDirOf(agentName), agentName, ms, FALSE,
                               env.fails)
    IN  IF wt.err # ""
        THEN [err |-> "creating worktree", sessions |-> sess, containers |-> cs,
              worktrees |-> wt.worktrees, branches |-> wt.branches]
        ELSE IF r.err # ""
        THEN [err |-> "creating sandbox", sessions |-> sess, containers |-> r.cs,
              worktrees |-> removeWorktree(wt.worktrees, agentName, env.cleanup),
              branches |-> wt.branches]
        ELSE [err |-> "",
              sessions |-> MapPut(sess, agentName,
                                  [r.session EXCEPT !.WorktreeDir = WorktreeDirOf(agentName)]),
              containers |-> r.cs, worktrees |-> wt.worktrees, branches |-> wt.branches]

\* Orchestrator.SpawnAgent on the map sess, the daemon's containers cs and
\* the repository's worktrees and branches; id is the id a new container gets.
SpawnAgentCall(sess, cs, wts, brs, id, agentName, ms, env) ==
    IF agentName \in DOMAIN sess
    THEN [err |-> ErrAlreadyExists, sessions |-> sess, containers |-> cs,
          worktrees |-> wts, branches |-> brs]
    ELSE LET wt == createWorktree(wts, brs, agentName, env.fails = "worktree")
             r == CreateSessionCall(cs, id, WorktreeDirOf(agentName), agentName, ms, FALSE,
                                    env.fails)
         IN  IF wt.err # ""
             THEN [err |-> "creating worktree", sessions |-> sess, containers |-> cs,
                   worktrees |-> wt.worktrees, branches |-> wt.branches]
             ELSE IF r.err # ""
             THEN [err |-> "creating sandbox", sessions |-> sess, containers |-> r.cs,
                   worktrees |-> removeWorktree(wt.worktrees, agentName, env.cleanup),
                   branches |-> wt.branches]
             ELSE [err |-> "",
                   sessions |-> MapPut(sess, agentName,
                                       [r.session EXCEPT !.WorktreeDir = WorktreeDirOf(agentName)]),
                   containers |-> r.cs, worktrees |-> wt.worktrees, branches |-> wt.branches]

\* What the environment can do to one StopAgent: the step it fails ("ok" for
\* none).  Every failure but that of the last step ends the call, so one
\* failing step a call is all there is: ListSessions, a step of StopSession,
\* the merge, the removal of the worktree.
StopEnvs == {"ok", "list", "stop", "remove", "merge", "cleanup"}

\* StopAgent cleaning up before it reports a failed merge: the worktree is
\* removed and the map entry deleted.
StopAgentCall_CleansOnMergeFailure(sess, cs, wts, repo, agentName, merge, env) ==
    LET inMap == agentName \in DOMAIN sess
        hits == SelectSeq(ListSessions(cs), LAMBDA id : cs[id].labels.agent = agentName)
    IN  IF ~inMap /\ env = "list"
        THEN [err |-> "listing sessions", sessions |-> sess, containers |-> cs,
              worktrees |-> wts, repo |-> repo, cause |-> ""]
        ELSE IF ~inMap /\ hits = <<>>
        THEN [err |-> "not found", sessions |-> sess, containers |-> cs, worktrees |-> wts,
              repo |-> repo, cause |-> ""]
        ELSE LET session == IF inMap THEN sess[agentName] ELSE SessionOfContainer(cs, hits[1])
                 r == StopSessionCall(cs, session, env)
                 marked == IF inMap THEN [sess EXCEPT ![agentName] = r.session] ELSE sess
                 hasWorktree == session.WorktreeDir # NoDir
                 committed == CommitAll(repo, wts, JoinWorktreeDir(session.ProjectDir, agentName))
                 merged == IF merge /\ hasWorktree
                           THEN mergeWorktreeContent(repo, wts, session.ProjectDir, agentName)
                           ELSE repo
             IN  IF r.err # ""
                 THEN [err |-> "stopping sandbox", sessions |-> sess, containers |-> r.cs,
                       worktrees |-> wts, repo |-> repo, cause |-> ""]
                 ELSE IF merge /\ hasWorktree /\ mergeWorktree(agentName, env = "merge") # ""
                 THEN [err |-> "merging worktree", sessions |-> MapDelete(marked, agentName),
                       containers |-> r.cs,
                       worktrees |-> removeWorktree(wts, agentName, FALSE),
                       repo |-> removeWorktreeContent(committed, agentName, FALSE),
                       cause |-> mergeWorktree(agentName, env = "merge")]
                 ELSE [err |-> "", sessions |-> MapDelete(marked, agentName),
                       containers |-> r.cs,
                       worktrees |-> IF hasWorktree
                                     THEN removeWorktree(wts, agentName, env = "cleanup")
                                     ELSE wts,
                       repo |-> IF hasWorktree
                                THEN removeWorktreeContent(merged, agentName, env = "cleanup")
                                ELSE merged,
                       cause |-> ""]

\* Orchestrator.StopAgent.  The Session of the map is the object StopSession
\* marks stopped, so the mark stays when a later step fails.
StopAgentCall(sess, cs, wts, repo, agentName, merge, env) ==
    LET inMap == agentName \in DOMAIN sess
        hits == SelectSeq(ListSessions(cs), LAMBDA id : cs[id].labels.agent = agentName)
    IN  IF ~inMap /\ env = "list"
        THEN [err |-> "listing sessions", sessions |-> sess, containers |-> cs,
              worktrees |-> wts, repo |-> repo, cause |-> ""]
        ELSE IF ~inMap /\ hits = <<>>
        THEN [err |-> "not found", sessions |-> sess, containers |-> cs, worktrees |-> wts,
              repo |-> repo, cause |-> ""]
        ELSE LET session == IF inMap THEN sess[agentName] ELSE SessionOfContainer(cs, hits[1])
                 r == StopSessionCall(cs, session, env)
                 marked == IF inMap THEN [sess EXCEPT ![agentName] = r.session] ELSE sess
                 hasWorktree == session.WorktreeDir # NoDir
                 committed == CommitAll(repo, wts, JoinWorktreeDir(session.ProjectDir, agentName))
                 merged == IF merge /\ hasWorktree
                           THEN mergeWorktreeContent(repo, wts, session.ProjectDir, agentName)
                           ELSE repo
             IN  IF r.err # ""
                 THEN [err |-> "stopping sandbox", sessions |-> sess, containers |-> r.cs,
                       worktrees |-> wts, repo |-> repo, cause |-> ""]
                 ELSE IF merge /\ hasWorktree /\ mergeWorktree(agentName, env = "merge") # ""
                 THEN [err |-> "merging worktree", sessions |-> marked, containers |-> r.cs,
                       worktrees |-> wts, repo |-> committed,
                       cause |-> mergeWorktree(agentName, env = "merge")]
                 ELSE [err |-> "", sessions |-> MapDelete(marked, agentName),
                       containers |-> r.cs,
                       worktrees |-> IF hasWorktree
                                     THEN removeWorktree(wts, agentName, env = "cleanup")
                                     ELSE wts,
                       repo |-> IF hasWorktree
                                THEN removeWorktreeContent(merged, agentName, env = "cleanup")
                                ELSE merged,
                       cause |-> ""]

\* -------------------------------------------------------- rollback manager
NoCheckpoint == [ID |-> 0, SessionID |-> SessionIdOf("", 0), ImageID |-> 0]

\* json.MarshalIndent of Manager.checkpoints and json.Unmarshal into it.
MarshalCheckpoints(cps) ==
    [k \in DOMAIN cps |->
        [i \in 1..Len(cps[k]) |->
            [id |-> cps[k][i].ID, session_id |-> cps[k][i].SessionID,
             image_id |-> cps[k][i].ImageID]]]
UnmarshalCheckpoints(data) ==
    [k \in DOMAIN data |->
        [i \in 1..Len(data[k]) |->
            [ID |-> data[k][i].id, SessionID |-> data[k][i].session_id,
             ImageID |-> data[k][i].image_id]]]

NoStore == [exists |-> FALSE, data |-> EmptyMap]

\* Manager.save: nothing without a storage path; a failed write leaves the file.
save(st, cps, hasPath, writeFails) ==
    IF hasPath /\ ~writeFails THEN [exists |-> TRUE, data |-> MarshalCheckpoints(cps)] ELSE st

\* Manager.load as New calls it: a missing file or a failed read leaves the map empty.
load(st, hasPath, readFails) ==
    IF hasPath /\ st.exists /\ ~readFails THEN UnmarshalCheckpoints(st.data) ELSE EmptyMap

\* Manager.ListCheckpoints
ListCheckpoints(cps, sessionID) == IF sessionID \in DOMAIN cps THEN cps[sessionID] ELSE <<>>


\* Engine.ListSessions as its caller gets it: the error of ContainerList, or
\* one Session for every container bearing the management label.
ListSessionsCall(cs, listFails) ==
    IF listFails THEN [err |-> "listing containers", sessions |-> <<>>]
    ELSE [err |-> "",
          sessions |-> [i \in 1..Len(ListSessions(cs)) |->
                           SessionOfContainer(cs, ListSessions(cs)[i])]]
CheckpointEnvs == [commit : BOOLEAN, save : BOOLEAN]

\* ContainerCommit: the image keeps the container's configuration (its labels
\* and the image it came from), not its HostConfig.
ContainerCommitOk(cs, id, envFails) == id \in DOMAIN cs /\ ~envFails
ImageCommitted(imgs, img, cs, id) ==
    [x \in DOMAIN imgs \cup {img} |->
        IF x = img THEN [labels |-> cs[id].labels, parent |-> cs[id].image] ELSE imgs[x]]

\* Manager.CreateCheckpoint; ms is the clock reading the id is made of, img the
\* id the committed image gets.
CreateCheckpointCall(cps, cs, imgs, img, session, ms, commitFails) ==
    IF ~ContainerCommitOk(cs, session.ContainerID, commitFails)
    THEN [err |-> "creating checkpoint", cp |-> NoCheckpoint, checkpoints |-> cps,
          images |-> imgs]
    ELSE LET cp == [ID |-> ms, SessionID |-> session.ID, ImageID |-> img]
         IN  [err |-> "", cp |-> cp,
              checkpoints |-> MapPut(cps, session.ID,
                                     Append(ListCheckpoints(cps, session.ID), cp)),
              images |-> ImageCommitted(imgs, img, cs, session.ContainerID)]

\* The identifier an error message of the manager carries: a session id
\* ("no checkpoints for session %s"), a checkpoint id ("checkpoint %s not
\* found"), or none.
NamesNothing == [session |-> SessionIdOf("", 0), checkpoint |-> 0]
NamesSession(sessionID) == [session |-> sessionID, checkpoint |-> 0]
NamesCheckpoint(checkpointID) == [session |-> SessionIdOf("", 0), checkpoint |-> checkpointID]

RollbackEnvs == [stop : BOOLEAN, remove : BOOLEAN, create : BOOLEAN, start : BOOLEAN]
NoFailure == [stop |-> FALSE, remove |-> FALSE, create |-> FALSE, start |-> FALSE]

\* A Rollback that stops and removes the current container before it looks
\* the checkpoint up.
RollbackCall_StopsFirst(cps, cs, imgs, id, session, checkpointID, env) ==
    LET old == session.ContainerID
        cs1 == IF ContainerStopOk(cs, old, env.stop) THEN ContainerStopped(cs, old) ELSE cs
        cs2 == IF ContainerRemoveOk(cs1, old, env.remove)
               THEN ContainerRemoved(cs1, old) ELSE cs1
        list == ListCheckpoints(cps, session.ID)
        hits == {i \in 1..Len(list) : list[i].ID = checkpointID}
    IN  IF session.ID \notin DOMAIN cps
        THEN [err |-> "no checkpoints", cs |-> cs2, session |-> session,
              target |-> NoCheckpoint, index |-> 0, names |-> NamesSession(session.ID),
              stamped |-> FALSE]
        ELSE IF hits = {}
        THEN [err |-> "checkpoint not found", cs |-> cs2, session |-> session,
              target |-> NoCheckpoint, index |-> 0,
              names |-> NamesCheckpoint(checkpointID), stamped |-> FALSE]
        ELSE LET target == list[Min(hits)]
                 made == ContainerCreated(cs2, id, session.ID, target.ImageID,
                                          imgs[target.ImageID].labels, NilHostConfig)
             IN  IF ~ContainerCreateOk(cs2, session.ID, env.create)
                 THEN [err |-> "creating container from checkpoint", cs |-> cs2,
                       session |-> session, target |-> target, index |-> Min(hits),
                       names |-> NamesNothing, stamped |-> FALSE]
                 ELSE IF env.start
                 THEN [err |-> "starting restored container", cs |-> made,
                       session |-> session, target |-> target, index |-> Min(hits),
                       names |-> NamesNothing, stamped |-> FALSE]
                 ELSE [err |-> "", cs |-> ContainerStarted(made, id),
                       session |-> [session EXCEPT !.ContainerID = id],
                       target |-> target, index |-> Min(hits),
                       names |-> NamesNothing, stamped |-> TRUE]

\* Manager.Rollback: the first checkpoint of the session's list bearing the
\* id; stopping and removing the old container is best effort; the new one is
\* created under the session's id as its name, with a nil HostConfig, and
\* takes its labels from the image.
RollbackCall(cps, cs, imgs, id, session, checkpointID, env) ==
    IF session.ID \notin DOMAIN cps
    THEN [err |-> "no checkpoints", cs |-> cs, session |-> session, target |-> NoCheckpoint,
          index |-> 0, names |-> NamesSession(session.ID), stamped |-> FALSE]
    ELSE LET list == cps[session.ID]
             hits == {i \in 1..Len(list) : list[i].ID = checkpointID}
         IN  IF hits = {}
             THEN [err |-> "checkpoint not found", cs |-> cs, session |-> session,
                   target |-> NoCheckpoint, index |-> 0,
                   names |-> NamesCheckpoint(checkpointID), stamped |-> FALSE]
             ELSE LET target == list[Min(hits)]
                      old == session.ContainerID
                      cs1 == IF ContainerStopOk(cs, old, env.stop)
                             THEN ContainerStopped(cs, old) ELSE cs
                      cs2 == IF ContainerRemoveOk(cs1, old, env.remove)
                             THEN ContainerRemoved(cs1, old) ELSE cs1
                      made == ContainerCreated(cs2, id, session.ID, target.ImageID,
                                               imgs[target.ImageID].labels, NilHostConfig)
                  IN  IF ~ContainerCreateOk(cs2, session.ID, env.create)
                      THEN [err |-> "creating container from checkpoint", cs |-> cs2,
                            session |-> session, target |-> target, index |-> Min(hits),
                            names |-> NamesNothing, stamped |-> FALSE]
                      ELSE IF env.start
                      THEN [err |-> "starting restored container", cs |-> made,
                            session |-> session, target |-> target, index |-> Min(hits),
                            names |-> NamesNothing, stamped |-> FALSE]
                      ELSE [err |-> "", cs |-> ContainerStarted(made, id),
                            session |-> [session EXCEPT !.ContainerID = id],
                            target |-> target, index |-> Min(hits),
                            names |-> NamesNothing, stamped |-> TRUE]

\* Manager.RollbackToLatest: Rollback with the id of the list's last element.
RollbackToLatestCall(cps, cs, imgs, id, session, env) ==
    IF session.ID \notin DOMAIN cps \/ Len(ListCheckpoints(cps, session.ID)) = 0
    THEN [err |-> "no checkpoints", cs |-> cs, session |-> session, target |-> NoCheckpoint,
          index |-> 0, names |-> NamesSession(session.ID), stamped |-> FALSE]
    ELSE LET latest == cps[session.ID][Len(cps[session.ID])]
         IN  RollbackCall(cps, cs, imgs, id, session, latest.ID, env)

\* ------------------------------------------------------------------- state
VARIABLES
    \* policy engine and policy shell of one session
    config,          \* Engine.config.Rules: [block, allow], lists of rules
    policyAttached,  \* the sandbox engine was built with a policy engine
    policyFile,      \* /etc/claudeshield/policy.json as the container sees it
    polPc,           \* "idle", or the operation whose result is held
    polCmd,          \* the command of that operation
    hostResult,      \* Result of the last EvaluateCommand
    shellRun,        \* outcome of the last run of claudeshield-shell
    execCmd,         \* the argument vector of the last ExecCommand
    execRet,         \* outcome of the last ExecCommand
    \* the pattern matchers alone
    mPc, mPattern, mCmd, mHost, mShell,
    \* file access
    fPc, fPath, fResult,
    \* Docker daemon
    containers,      \* container id -> [name, image, labels, hostCfg, state]
    images,          \* committed image id -> [labels, hostCfg of its container]
    nextId,          \* the id the next created container gets
    \* orchestrator and the project's git repository
    sessions,        \* Orchestrator.sessions: agent name -> Session
    worktrees,       \* agents whose worktree directory exists
    branches,        \* agents whose branch exists
    work,            \* the agents' changes in the repository: [branch, dirty, main]
    live,            \* agents spawned by this Orchestrator and not yet stopped by it
    orchLast,        \* the agent the Orchestrator's last call stopped without merge, or ""
    orchRet,         \* the Orchestrator call that has just returned, or idle
    thr,             \* per goroutine: the Orchestrator call it is in and where
    mu,              \* Orchestrator.mu: the goroutines holding it, [writers, readers]
    view,            \* the map ListAgents returned to its caller, and what the caller did
    cpThr,           \* per goroutine: the CreateCheckpoint call it is in and where
    \* rollback manager and the Sessions its caller holds
    held,            \* the Sessions CreateSession has returned, in order
    checkpoints,     \* Manager.checkpoints: session id -> list of checkpoints
    persist,         \* Manager.storagePath is set
    store,           \* the checkpoint file: [exists, data]
    lastCp,          \* per held Session: the checkpoint its last call created
    lastRb,          \* per held Session: the list index its latest rollback restored, or 0
    rbRet            \* the engine or manager call that has just returned, or idle

polVars == <<sandbox, config, policyAttached, policyFile, polPc, polCmd, hostResult, shellRun,
            execCmd, execRet>>
matchVars == <<mPc, mPattern, mCmd, mHost, mShell>>
fileVars == <<fPc, fPath, fResult>>
dockerVars == <<containers, images, nextId>>
orchVars == <<sessions, worktrees, branches, work, live, orchLast, orchRet>>
lockVars == <<thr, mu>>
callerVars == <<view, cpThr>>
rbVars == <<held, checkpoints, persist, store, lastCp, lastRb, rbRet>>
vars == <<polVars, matchVars, fileVars, dockerVars, orchVars, lockVars, callerVars, rbVars>>

\* What the operations of one component leave alone.
notPolicy == <<matchVars, fileVars, dockerVars, orchVars, rbVars, lockVars, callerVars>>
notMatch == <<polVars, fileVars, dockerVars, orchVars, rbVars, lockVars, callerVars>>
notFile == <<polVars, matchVars, dockerVars, orchVars, rbVars, lockVars, callerVars>>
notOrch == <<polVars, matchVars, fileVars, images, rbVars, lockVars, callerVars>>
notLock ==
    <<polVars, matchVars, fileVars, images, rbVars, live, orchLast, orchRet, callerVars>>
notEngine == <<polVars, matchVars, fileVars, orchVars, lockVars, callerVars>>
notEngineCaller == <<polVars, matchVars, fileVars, orchVars, lockVars>>

\* ------------------------------------------------------- policy: rule sets
PolicyPatterns ==
    {<<"g", " ", "*">>, <<"*", "g">>, <<"g", "*">>, <<"?", " ", "*">>, <<"g">>}
BlockReasons == {"", "denied"}
BlockRules == {[pattern |-> p, reason |-> r] : p \in PolicyPatterns, r \in BlockReasons}
AllowRules == {[pattern |-> p, reason |-> ""] : p \in PolicyPatterns}

\* Rule sets of at most MaxRules rules in all.
Configs ==
    {[block |-> b, allow |-> a] :
        b \in SeqsUpTo(BlockRules, MaxRules), a \in SeqsUpTo(AllowRules, MaxRules)}

NoResult == [Allowed |-> FALSE, Action |-> "none", Rule |-> NoRule, Reason |-> ""]

PolicyIdle ==
    /\ polPc = "idle"
    /\ polCmd = <<>>
    /\ hostResult = NoResult
    /\ shellRun = NoRun
    /\ execCmd = <<>>
    /\ execRet = NoExec

\* A session as CreateSession leaves it: with a policy engine the artifact
\* generated from its rules is mounted, without one there is no artifact.
PolicyInit ==
    /\ sandbox = DefaultSandbox
    /\ config \in {c \in Configs : Len(c.block) + Len(c.allow) <= MaxRules}
    /\ policyAttached \in BOOLEAN
    /\ policyFile = IF policyAttached THEN generatePolicyMount(config) ELSE NoFile
    /\ PolicyIdle

MatchInit ==
    /\ mPc = "idle"
    /\ mPattern = <<>>
    /\ mCmd = <<>>
    /\ mHost = FALSE
    /\ mShell = FALSE

FileNone == [Allowed |-> FALSE, Action |-> "none", ReasonText |-> "", ReasonPath |-> <<>>]

FileInit ==
    /\ fPc = "idle"
    /\ fPath = <<>>
    /\ fResult = FileNone

\* ------------------------------------------------------- policy: operations
\* The host evaluates a command (ExecCommand's policy check).
HostEvaluate(c) ==
    /\ polPc = "idle"
    /\ polPc' = "host"
    /\ polCmd' = c
    /\ hostResult' = EvaluateCommand(config, c)
    /\ UNCHANGED <<sandbox, config, policyAttached, policyFile, shellRun, execCmd, execRet, notPolicy>>

\* claudeshield-shell -c "c" runs in the container.
ShellDashC(c) ==
    /\ polPc = "idle"
    /\ polPc' = "shell"
    /\ polCmd' = c
    /\ shellRun' = ShellMain(policyFile, "-c", c)
    /\ UNCHANGED <<sandbox, config, policyAttached, policyFile, hostResult, execCmd, execRet, notPolicy>>

\* claudeshield-shell runs without -c (the container's Cmd, a login, a
\* script) and command c reaches the /bin/bash it became.
ShellInteractive(c) ==
    /\ polPc = "idle"
    /\ polPc' = "shell"
    /\ polCmd' = c
    /\ shellRun' = ShellMain(policyFile, "interactive", c)
    /\ UNCHANGED <<sandbox, config, policyAttached, policyFile, hostResult, execCmd, execRet, notPolicy>>

\* The host runs argument vector cmd in the session's container.
ExecCommand(cmd, env) ==
    /\ polPc = "idle"
    /\ polPc' = "exec"
    /\ polCmd' = Join(cmd)
    /\ execCmd' = cmd
    /\ execRet' = ExecCommandCall(config, policyAttached, AuditorAttached, cmd, env)
    /\ UNCHANGED <<sandbox, config, policyAttached, policyFile, hostResult, shellRun, notPolicy>>

\* The caller has taken the result.
PolicyReturn ==
    /\ polPc # "idle"
    /\ polPc' = "idle"
    /\ polCmd' = <<>>
    /\ hostResult' = NoResult
    /\ shellRun' = NoRun
    /\ execCmd' = <<>>
    /\ execRet' = NoExec
    /\ UNCHANGED <<sandbox, config, policyAttached, policyFile, notPolicy>>

\* ------------------------------------------------- the session's bind mounts
\* Paths as sequences of components.  buildMounts binds the project directory
\* at /workspace, writable; generatePolicyMount writes policy.json into
\* .claudeshield below the project directory and binds that file, read-only.
HostProjectDir == <<"project">>
PolicyPath(projectDir) == projectDir \o <<".claudeshield", "policy.json">>
WorkspaceMount(projectDir) ==
    [Source |-> projectDir, Target |-> <<"workspace">>, ReadOnly |-> FALSE]
PolicyMount(projectDir) ==
    [Source |-> PolicyPath(projectDir), Target |-> <<"etc", "claudeshield", "policy.json">>,
     ReadOnly |-> TRUE]
SessionMounts(projectDir, withPolicy) ==
    {WorkspaceMount(projectDir)} \cup (IF withPolicy THEN {PolicyMount(projectDir)} ELSE {})

IsPrefix(p, q) == Len(p) <= Len(q) /\ SubSeq(q, 1, Len(p)) = p

\* A process in the container opens path for writing: under a bind mount the
\* file is the host's file below the mount's source (the same inode whatever
\* mount it is reached through) and the mount's ReadOnly decides; elsewhere
\* it is a file of the container's own layer.
OpenForWrite(mounts, path) ==
    LET under == {m \in mounts : IsPrefix(m.Target, path)}
    IN  IF under = {} THEN [ok |-> TRUE, onHost |-> FALSE, host |-> <<>>]
        ELSE LET m == CHOOSE x \in under : \A y \in under : Len(y.Target) <= Len(x.Target)
             IN  [ok |-> ~m.ReadOnly, onHost |-> TRUE,
                  host |-> m.Source \o SubSeq(path, Len(m.Target) + 1, Len(path))]

\* Paths a command in the container writes to, and what it writes: a policy
\* file that allows everything.
ContainerPaths ==
    {<<"etc", "claudeshield", "policy.json">>, <<"workspace", ".claudeshield", "policy.json">>,
     <<"workspace", "x">>, <<"tmp", "x">>}
AllowAll == [block |-> <<>>, allow |-> <<[pattern |-> Star, reason |-> ""]>>]

\* A command running in the container overwrites the file at path.
ContainerWrites(path, content) ==
    LET mounts == SessionMounts(HostProjectDir, policyAttached)
        w == OpenForWrite(mounts, path)
    IN  /\ polPc = "idle"
        /\ policyFile' = IF /\ w.ok /\ w.onHost
                            /\ \E m \in mounts : m.Target = <<"etc", "claudeshield", "policy.json">>
                                                 /\ m.Source = w.host
                         THEN content ELSE policyFile
        /\ UNCHANGED <<sandbox, config, policyAttached, polPc, polCmd, hostResult, shellRun, execCmd,
                       execRet, notPolicy>>

\* Both matchers applied to one pattern and one command.
MatchBoth(p, c) ==
    /\ mPc = "idle"
    /\ mPc' = "done"
    /\ mPattern' = p
    /\ mCmd' = c
    /\ mHost' = matchPattern(p, c)
    /\ mShell' = match_pattern(p, c)
    /\ UNCHANGED notMatch

MatchReturn ==
    /\ mPc = "done"
    /\ mPc' = "idle"
    /\ mPattern' = <<>>
    /\ mCmd' = <<>>
    /\ mHost' = FALSE
    /\ mShell' = FALSE
    /\ UNCHANGED notMatch

FileAccess(p) ==
    /\ fPc = "idle"
    /\ fPc' = "done"
    /\ fPath' = p
    /\ fResult' = EvaluateFileAccess(p)
    /\ UNCHANGED notFile

FileReturn ==
    /\ fPc = "done"
    /\ fPc' = "idle"
    /\ fPath' = <<>>
    /\ fResult' = FileNone
    /\ UNCHANGED notFile

\* ------------------------------------------------------- Docker: initial state
\* A daemon with no managed container and no committed image.
DockerInit ==
    /\ containers = EmptyMap
    /\ images = EmptyMap
    /\ nextId = 1

\* The id is used up when the call has created a container.
IdAfter(cs) == IF nextId \in DOMAIN cs THEN nextId + 1 ELSE nextId

\* ------------------------------------------------- orchestrator: operations
\* The goroutines that call one Orchestrator, each making one call.
Threads == 1..MaxThreads
ThreadIdle ==
    [op |-> "idle", agent |-> "", merge |-> FALSE, pc |-> "idle", err |-> "",
     session |-> NoSession, inMap |-> FALSE, seen |-> EmptyMap]

\* A Lock that does not wait for the holders of the mutex.
LockOk_NoWait(m) == TRUE

\* sync.RWMutex: Lock waits until nobody holds the mutex, RLock until no
\* writer holds it.
LockOk(m) == m.writers = {} /\ m.readers = {}
RLockOk(m) == m.writers = {}

\* A Session object is told from the others an Orchestrator holds by the
\* container it was created with; a *types.Session is modelled by that id.
Ref(session) == session.ContainerID

\* ListAgents: a new map with the keys of o.sessions, every value the pointer
\* the Orchestrator's map holds.
ListAgentsCall(sess) == [k \in DOMAIN sess |-> Ref(sess[k])]

NoView == [map |-> EmptyMap, last |-> <<"", "">>]

\* The goroutines calling Manager.CreateCheckpoint, each on the Session it was
\* handed, and where each of them is in the call.
CpCallers == {"A", "B"}
CpIdle == [pc |-> "idle", session |-> NoSession, ms |-> 0, cp |-> NoCheckpoint,
           data |-> EmptyMap, err |-> "", raced |-> FALSE]
NoCalls == [g \in CpCallers |-> CpIdle]

OrchIdle ==
    [op |-> "idle", agent |-> "", merge |-> FALSE, err |-> "", cause |-> "",
     hadEntry |-> FALSE,
     wasLive |-> FALSE, afterStop |-> FALSE, containersBefore |-> {}, worktreesBefore |-> {},
     branchesBefore |-> {}, workBefore |-> NoWork, stateBefore |-> "", clean |-> FALSE]

\* orchestrator.New in a project without worktrees.
OrchInit ==
    /\ sessions = EmptyMap
    /\ worktrees = {}
    /\ branches = {}
    /\ work = NoWork
    /\ live = {}
    /\ orchLast = ""
    /\ orchRet = OrchIdle
    /\ thr = [t \in Threads |-> ThreadIdle]
    /\ mu = [writers |-> {}, readers |-> {}]
    /\ view = NoView
    /\ cpThr = NoCalls

SpawnAgent(n, ms, env) ==
    LET r == SpawnAgentCall(sessions, containers, worktrees, branches, nextId, n, ms, env)
    IN  /\ orchRet.op = "idle"
        /\ nextId <= MaxContainers
        /\ sessions' = r.sessions
        /\ containers' = r.containers
        /\ nextId' = IdAfter(r.containers)
        /\ worktrees' = r.worktrees
        /\ branches' = r.branches
        /\ work' = IF r.err = ErrAlreadyExists THEN work
                   ELSE createWorktreeContent(work, n, r.err = "creating worktree")
        /\ live' = IF r.err = "" THEN live \cup {n} ELSE live
        /\ orchRet' = [op |-> "SpawnAgent", agent |-> n, merge |-> FALSE, err |-> r.err,
                       cause |-> "",
                       hadEntry |-> n \in DOMAIN sessions, wasLive |-> n \in live,
                       afterStop |-> orchLast = n,
                       containersBefore |-> DOMAIN containers,
                       worktreesBefore |-> worktrees,
                       branchesBefore |-> branches, workBefore |-> work,
                       stateBefore |-> IF n \in DOMAIN sessions THEN sessions[n].State ELSE "",
                       clean |-> env.fails = "ok"]
        /\ UNCHANGED <<orchLast, notOrch>>

StopAgent(n, merge, env) ==
    LET r == StopAgentCall(sessions, containers, worktrees, work, n, merge, env)
    IN  /\ orchRet.op = "idle"
        /\ sessions' = r.sessions
        /\ containers' = r.containers
        /\ worktrees' = r.worktrees
        /\ work' = r.repo
        /\ live' = IF r.err = "" THEN live \ {n} ELSE live
        /\ orchRet' = [op |-> "StopAgent", agent |-> n, merge |-> merge, err |-> r.err,
                       cause |-> r.cause,
                       hadEntry |-> n \in DOMAIN sessions, wasLive |-> n \in live,
                       afterStop |-> FALSE,
                       containersBefore |-> DOMAIN containers,
                       worktreesBefore |-> worktrees,
                       branchesBefore |-> branches, workBefore |-> work,
                       stateBefore |-> IF n \in DOMAIN sessions THEN sessions[n].State ELSE "",
                       clean |-> env = "ok"]
        /\ UNCHANGED <<nextId, branches, orchLast, notOrch>>

\* The caller has taken the result; the call becomes the Orchestrator's last.
OrchReturn ==
    /\ orchRet.op # "idle"
    /\ orchLast' = IF orchRet.op = "StopAgent" /\ orchRet.err = "" /\ ~orchRet.merge
                   THEN orchRet.agent ELSE ""
    /\ orchRet' = OrchIdle
    /\ UNCHANGED <<containers, nextId, sessions, worktrees, branches, work, live, notOrch>>

\* Orchestrator.ListAgents; the caller keeps the map it returned.
ListAgents ==
    /\ orchRet.op = "idle"
    /\ view' = [map |-> ListAgentsCall(sessions), last |-> <<"ListAgents", "">>]
    /\ UNCHANGED <<containers, nextId, sessions, worktrees, branches, work, live, orchLast,
                   orchRet, polVars, matchVars, fileVars, images, rbVars, lockVars, cpThr>>

\* The caller assigns to key k of the returned map (a Session of its own
\* making) or deletes key k from it.
CallerKeys == {"a", "x"}
CallerPuts(k) ==
    /\ view.last[1] # ""
    /\ view' = [map |-> MapPut(view.map, k, 0), last |-> <<"put", k>>]
    /\ UNCHANGED <<containers, nextId, sessions, worktrees, branches, work, live, orchLast,
                   orchRet, polVars, matchVars, fileVars, images, rbVars, lockVars, cpThr>>
CallerDeletes(k) ==
    /\ view.last[1] # ""
    /\ k \in DOMAIN view.map
    /\ view' = [map |-> MapDelete(view.map, k), last |-> <<"delete", k>>]
    /\ UNCHANGED <<containers, nextId, sessions, worktrees, branches, work, live, orchLast,
                   orchRet, polVars, matchVars, fileVars, images, rbVars, lockVars, cpThr>>

\* The caller writes through the pointer at key k of the returned map:
\* result[k].WorktreeDir = "".  The object written is the one the
\* Orchestrator's map points to, if it still holds that pointer.
CallerWrites(k) ==
    /\ view.last[1] # ""
    /\ k \in DOMAIN view.map
    /\ view' = [view EXCEPT !.last = <<"write", k>>]
    /\ sessions' = [n \in DOMAIN sessions |->
                        IF Ref(sessions[n]) = view.map[k]
                        THEN [sessions[n] EXCEPT !.WorktreeDir = NoDir] ELSE sessions[n]]
    /\ UNCHANGED <<containers, nextId, worktrees, branches, work, live, orchLast,
                   orchRet, polVars, matchVars, fileVars, images, rbVars, lockVars, cpThr>>

\* The process ends and a later one calls orchestrator.New: the map starts
\* empty, the containers and the repository are as they were left.
NewOrchestrator ==
    /\ orchRet.op = "idle"
    /\ sessions # EmptyMap \/ orchLast # ""
    /\ sessions' = EmptyMap
    /\ live' = {}
    /\ orchLast' = ""
    /\ UNCHANGED <<containers, nextId, worktrees, branches, work, orchRet, notOrch>>

\* The agent changes files of /workspace, its worktree, in its running
\* container, and commits the change on its branch or leaves it uncommitted.
AgentWorks(n, commit) ==
    /\ orchRet.op = "idle"
    /\ n \in worktrees
    /\ \E c \in DOMAIN containers :
          containers[c].labels.agent = n /\ containers[c].state = "running"
    /\ work' = IF commit THEN [work EXCEPT !.branch[n] = @ \cup {"committed"}]
               ELSE [work EXCEPT !.dirty[n] = TRUE]
    /\ work' # work
    /\ UNCHANGED <<containers, nextId, sessions, worktrees, branches, live, orchLast,
                   orchRet, notOrch>>

\* ------------------------------- orchestrator: concurrent calls, step by step
\* Goroutine t calls SpawnAgent, StopAgent or ListAgents; the goroutines are
\* numbered in the order of their calls.
ThreadCall(t, op, n, merge) ==
    /\ thr[t].op = "idle"
    /\ \A u \in Threads : u < t => thr[u].op # "idle"
    /\ thr' = [thr EXCEPT ![t] = [ThreadIdle EXCEPT !.op = op, !.agent = n, !.merge = merge,
                                      !.pc = IF op = "ListAgents" THEN "RLock" ELSE "Lock"]]
    /\ UNCHANGED <<mu, sessions, worktrees, branches, work, dockerVars, notLock>>

\* o.mu.Lock() of SpawnAgent and StopAgent.
Lock(t) ==
    /\ thr[t].pc = "Lock"
    /\ LockOk(mu)
    /\ mu' = [mu EXCEPT !.writers = @ \cup {t}]
    /\ thr' = [thr EXCEPT ![t].pc = IF thr[t].op = "SpawnAgent" THEN "exists" ELSE "resolve"]
    /\ UNCHANGED <<sessions, worktrees, branches, work, dockerVars, notLock>>

\* The deferred o.mu.Unlock(): the call returns.
Unlock(t) ==
    /\ thr[t].pc = "Unlock"
    /\ mu' = [mu EXCEPT !.writers = @ \ {t}]
    /\ thr' = [thr EXCEPT ![t].pc = "done"]
    /\ UNCHANGED <<sessions, worktrees, branches, work, dockerVars, notLock>>

\* SpawnAgent: the test for an existing entry.
SpawnExists(t) ==
    /\ thr[t].pc = "exists"
    /\ thr' = IF thr[t].agent \in DOMAIN sessions
              THEN [thr EXCEPT ![t].err = ErrAlreadyExists, ![t].pc = "Unlock"]
              ELSE [thr EXCEPT ![t].pc = "createWorktree"]
    /\ UNCHANGED <<mu, sessions, worktrees, branches, work, dockerVars, notLock>>

\* SpawnAgent: createWorktree.
SpawnCreateWorktree(t, addFails) ==
    LET n == thr[t].agent
        wt == createWorktree(worktrees, branches, n, addFails)
    IN  /\ thr[t].pc = "createWorktree"
        /\ worktrees' = wt.worktrees
        /\ branches' = wt.branches
        /\ work' = createWorktreeContent(work, n, addFails)
        /\ thr' = IF wt.err # ""
                  THEN [thr EXCEPT ![t].err = "creating worktree", ![t].pc = "Unlock"]
                  ELSE [thr EXCEPT ![t].pc = "CreateSession"]
        /\ UNCHANGED <<mu, sessions, dockerVars, notLock>>

\* SpawnAgent: CreateSession, and removeWorktree when it failed.
SpawnCreateSession(t, ms, env) ==
    LET n == thr[t].agent
        r == CreateSessionCall(containers, nextId, WorktreeDirOf(n), n, ms, FALSE, env.fails)
    IN  /\ thr[t].pc = "CreateSession"
        /\ nextId <= MaxContainers
        /\ env.fails # "worktree"
        /\ containers' = r.cs
        /\ nextId' = IdAfter(r.cs)
        /\ worktrees' = IF r.err # "" THEN removeWorktree(worktrees, n, env.cleanup)
                        ELSE worktrees
        /\ work' = IF r.err # "" THEN removeWorktreeContent(work, n, env.cleanup) ELSE work
        /\ thr' = IF r.err # ""
                  THEN [thr EXCEPT ![t].err = "creating sandbox", ![t].pc = "Unlock"]
                  ELSE [thr EXCEPT ![t].session = r.session, ![t].pc = "WorktreeDir"]
        /\ UNCHANGED <<mu, sessions, branches, images, notLock>>

\* SpawnAgent: session.WorktreeDir = worktreeDir.
SpawnSetWorktreeDir(t) ==
    /\ thr[t].pc = "WorktreeDir"
    /\ thr' = [thr EXCEPT ![t].session.WorktreeDir = WorktreeDirOf(thr[t].agent),
                          ![t].pc = "put"]
    /\ UNCHANGED <<mu, sessions, worktrees, branches, work, dockerVars, notLock>>

\* SpawnAgent: o.sessions[agentName] = session.
SpawnPut(t) ==
    /\ thr[t].pc = "put"
    /\ sessions' = MapPut(sessions, thr[t].agent, thr[t].session)
    /\ thr' = [thr EXCEPT ![t].pc = "Unlock"]
    /\ UNCHANGED <<mu, worktrees, branches, work, dockerVars, notLock>>

\* StopAgent: the Session of the map, or of the engine's listing.
StopResolve(t, listFails) ==
    LET n == thr[t].agent
        hits == SelectSeq(ListSessions(containers),
                          LAMBDA id : containers[id].labels.agent = n)
    IN  /\ thr[t].pc = "resolve"
        /\ thr' = IF n \in DOMAIN sessions
                  THEN [thr EXCEPT ![t].session = sessions[n], ![t].inMap = TRUE,
                                   ![t].pc = "StopSession"]
                  ELSE IF listFails
                  THEN [thr EXCEPT ![t].err = "listing sessions", ![t].pc = "Unlock"]
                  ELSE IF hits = <<>>
                  THEN [thr EXCEPT ![t].err = "not found", ![t].pc = "Unlock"]
                  ELSE [thr EXCEPT ![t].session = SessionOfContainer(containers, hits[1]),
                                   ![t].pc = "StopSession"]
        /\ UNCHANGED <<mu, sessions, worktrees, branches, work, dockerVars, notLock>>

\* StopAgent: StopSession; the Session of the map is the one it marks.
StopStopSession(t, env) ==
    LET n == thr[t].agent
        r == StopSessionCall(containers, thr[t].session, env)
    IN  /\ thr[t].pc = "StopSession"
        /\ containers' = r.cs
        /\ sessions' = IF thr[t].inMap /\ n \in DOMAIN sessions
                       THEN [sessions EXCEPT ![n].State = r.session.State]
                       ELSE sessions
        /\ thr' = IF r.err # ""
                  THEN [thr EXCEPT ![t].err = "stopping sandbox", ![t].pc = "Unlock"]
                  ELSE [thr EXCEPT ![t].session = r.session, ![t].pc = "merge"]
        /\ UNCHANGED <<mu, worktrees, branches, work, images, nextId, notLock>>

\* StopAgent: mergeWorktree when asked for and the Session has a worktree.
StopMerge(t, mergeFails) ==
    LET n == thr[t].agent
        s == thr[t].session
        asked == thr[t].merge /\ s.WorktreeDir # NoDir
        failed == asked /\ mergeWorktree(n, mergeFails) # ""
    IN  /\ thr[t].pc = "merge"
        /\ work' = IF ~asked THEN work
                   ELSE IF failed
                   THEN CommitAll(work, worktrees, JoinWorktreeDir(s.ProjectDir, n))
                   ELSE mergeWorktreeContent(work, worktrees, s.ProjectDir, n)
        /\ thr' = IF failed
                  THEN [thr EXCEPT ![t].err = "merging worktree", ![t].pc = "Unlock"]
                  ELSE [thr EXCEPT ![t].pc = "removeWorktree"]
        /\ UNCHANGED <<mu, sessions, worktrees, branches, dockerVars, notLock>>

\* StopAgent: removeWorktree when the Session has a worktree, then delete.
StopCleanup(t, removeFails) ==
    LET n == thr[t].agent
        has == thr[t].session.WorktreeDir # NoDir
    IN  /\ thr[t].pc = "removeWorktree"
        /\ worktrees' = IF has THEN removeWorktree(worktrees, n, removeFails) ELSE worktrees
        /\ work' = IF has THEN removeWorktreeContent(work, n, removeFails) ELSE work
        /\ sessions' = MapDelete(sessions, n)
        /\ thr' = [thr EXCEPT ![t].pc = "Unlock"]
        /\ UNCHANGED <<mu, branches, dockerVars, notLock>>

\* ListAgents: o.mu.RLock().
RLock(t) ==
    /\ thr[t].pc = "RLock"
    /\ RLockOk(mu)
    /\ mu' = [mu EXCEPT !.readers = @ \cup {t}]
    /\ thr' = [thr EXCEPT ![t].pc = "copy"]
    /\ UNCHANGED <<sessions, worktrees, branches, work, dockerVars, notLock>>

\* ListAgents: the copy of the map, and the deferred o.mu.RUnlock().
ListCopy(t) ==
    /\ thr[t].pc = "copy"
    /\ mu' = [mu EXCEPT !.readers = @ \ {t}]
    /\ thr' = [thr EXCEPT ![t].seen = sessions, ![t].pc = "done"]
    /\ UNCHANGED <<sessions, worktrees, branches, work, dockerVars, notLock>>

\* ------------------------------------- engine and rollback manager: operations
CreateSessionEnvs == {"ok", "image", "policy", "create", "start"}
StopSessionEnvs == {"ok", "stop", "remove"}

RbIdle ==
    [op |-> "idle", slot |-> 0, err |-> "", checkpointID |-> 0, cp |-> NoCheckpoint,
     prevCp |-> NoCheckpoint, target |-> NoCheckpoint, before |-> NoSession,
     listBefore |-> <<>>, index |-> 0, prevIndex |-> 0, clean |-> FALSE,
     containersBefore |-> EmptyMap, checkpointsBefore |-> EmptyMap, env |-> NoFailure,
     names |-> NamesNothing, stamped |-> FALSE, stopEnv |-> "ok", audit |-> <<>>,
     listed |-> <<>>]

\* rollback.New before any session exists: with or without a storage path,
\* and no checkpoint file yet.
ManagerNew(hasPath) ==
    /\ held = <<>>
    /\ lastCp = <<>>
    /\ lastRb = <<>>
    /\ checkpoints = EmptyMap
    /\ persist = hasPath
    /\ store = NoStore
    /\ rbRet = RbIdle

ManagerInit == ManagerNew(FALSE)

\* Engine.CreateSession for the project directory; the caller keeps the Session.
CreateSession(n, ms, env) ==
    LET r == CreateSessionCall(containers, nextId, ProjectDir, n, ms, policyAttached, env)
    IN  /\ rbRet.op = "idle"
        /\ nextId <= MaxCreated
        /\ Len(held) < MaxSessions
        /\ containers' = r.cs
        /\ nextId' = IdAfter(r.cs)
        /\ held' = IF r.err = "" THEN Append(held, r.session) ELSE held
        /\ lastCp' = IF r.err = "" THEN Append(lastCp, NoCheckpoint) ELSE lastCp
        /\ lastRb' = IF r.err = "" THEN Append(lastRb, 0) ELSE lastRb
        /\ rbRet' = [RbIdle EXCEPT !.op = "CreateSession", !.err = r.err,
                                   !.slot = IF r.err = "" THEN Len(held) + 1 ELSE 0,
                                   !.containersBefore = containers]
        /\ UNCHANGED <<images, checkpoints, persist, store, notEngine>>

\* Engine.StopSession on a held Session.
StopSession(i, env) ==
    LET r == StopSessionCall(containers, held[i], env)
    IN  /\ rbRet.op = "idle"
        /\ i <= Len(held)
        /\ containers' = r.cs
        /\ held' = [held EXCEPT ![i] = r.session]
        /\ lastCp' = [lastCp EXCEPT ![i] = NoCheckpoint]
        /\ lastRb' = [lastRb EXCEPT ![i] = 0]
        /\ rbRet' = [RbIdle EXCEPT !.op = "StopSession", !.slot = i, !.err = r.err,
                                   !.before = held[i], !.containersBefore = containers,
                                   !.stopEnv = env, !.audit = r.audit]
        /\ UNCHANGED <<images, nextId, checkpoints, persist, store, notEngine>>

\* Manager.CreateCheckpoint on a held Session, with the save that ends it.
CreateCheckpoint(i, ms, env) ==
    LET img == Cardinality(DOMAIN images) + 1
        r == CreateCheckpointCall(checkpoints, containers, images, img, held[i], ms,
                                  env.commit)
    IN  /\ rbRet.op = "idle"
        /\ i <= Len(held)
        /\ img <= MaxImages
        /\ images' = r.images
        /\ checkpoints' = r.checkpoints
        /\ store' = IF r.err = "" THEN save(store, r.checkpoints, persist, env.save) ELSE store
        /\ lastCp' = [lastCp EXCEPT ![i] = r.cp]
        /\ rbRet' = [RbIdle EXCEPT !.op = "CreateCheckpoint", !.slot = i, !.err = r.err,
                                   !.cp = r.cp, !.before = held[i],
                                   !.listBefore = ListCheckpoints(checkpoints, held[i].ID)]
        /\ UNCHANGED <<containers, nextId, held, persist, lastRb, notEngine>>

\* Manager.Rollback on a held Session.
Rollback(i, checkpointID, env) ==
    LET r == RollbackCall(checkpoints, containers, images, nextId, held[i], checkpointID, env)
    IN  /\ rbRet.op = "idle"
        /\ i <= Len(held)
        /\ nextId <= MaxCreated
        /\ containers' = r.cs
        /\ nextId' = IdAfter(r.cs)
        /\ held' = [held EXCEPT ![i] = r.session]
        /\ lastCp' = [lastCp EXCEPT ![i] = NoCheckpoint]
        /\ lastRb' = [lastRb EXCEPT ![i] = IF r.err = "" THEN r.index ELSE 0]
        /\ rbRet' = [RbIdle EXCEPT !.op = "Rollback", !.slot = i, !.err = r.err,
                                   !.checkpointID = checkpointID, !.prevCp = lastCp[i],
                                   !.target = r.target, !.before = held[i],
                                   !.listBefore = ListCheckpoints(checkpoints, held[i].ID),
                                   !.index = r.index, !.prevIndex = lastRb[i],
                                   !.clean = (env = NoFailure),
                                   !.containersBefore = containers, !.env = env,
                                   !.names = r.names, !.stamped = r.stamped,
                                   !.checkpointsBefore = checkpoints]
        /\ UNCHANGED <<images, checkpoints, persist, store, notEngine>>

\* Manager.RollbackToLatest on a held Session.
RollbackToLatest(i, env) ==
    LET r == RollbackToLatestCall(checkpoints, containers, images, nextId, held[i], env)
    IN  /\ rbRet.op = "idle"
        /\ i <= Len(held)
        /\ nextId <= MaxCreated
        /\ containers' = r.cs
        /\ nextId' = IdAfter(r.cs)
        /\ held' = [held EXCEPT ![i] = r.session]
        /\ lastCp' = [lastCp EXCEPT ![i] = NoCheckpoint]
        /\ lastRb' = [lastRb EXCEPT ![i] = IF r.err = "" THEN r.index ELSE 0]
        /\ rbRet' = [RbIdle EXCEPT !.op = "RollbackToLatest", !.slot = i, !.err = r.err,
                                   !.target = r.target, !.before = held[i],
                                   !.listBefore = ListCheckpoints(checkpoints, held[i].ID),
                                   !.index = r.index, !.clean = (env = NoFailure),
                                   !.containersBefore = containers, !.env = env,
                                   !.names = r.names, !.stamped = r.stamped,
                                   !.checkpointsBefore = checkpoints]
        /\ UNCHANGED <<images, checkpoints, persist, store, notEngine>>

\* Engine.ListSessions.
ListSessionsOp(listFails) ==
    LET r == ListSessionsCall(containers, listFails)
    IN  /\ rbRet.op = "idle"
        /\ rbRet' = [RbIdle EXCEPT !.op = "ListSessions", !.err = r.err,
                                   !.listed = r.sessions]
        /\ UNCHANGED <<containers, images, nextId, held, checkpoints, persist, store, lastCp,
                       lastRb, notEngine>>

\* Somebody else's container on the same daemon (docker run): it has none of
\* the labels.
ForeignLabels ==
    [managed |-> FALSE, session |-> SessionIdOf("", 0), agent |-> "", project |-> NoDir]
ForeignRun ==
    /\ rbRet.op = "idle"
    /\ nextId <= MaxCreated
    /\ \A c \in DOMAIN containers : containers[c].labels.managed
    /\ containers' = ContainerStarted(
                         ContainerCreated(containers, nextId, SessionIdOf("", nextId),
                                          SandboxImage, ForeignLabels, NilHostConfig), nextId)
    /\ nextId' = nextId + 1
    /\ UNCHANGED <<images, held, checkpoints, persist, store, lastCp, lastRb, rbRet, notEngine>>

\* docker pause on a running container.
DockerPause(c) ==
    /\ rbRet.op = "idle"
    /\ c \in DOMAIN containers
    /\ containers[c].state = "running"
    /\ containers' = [containers EXCEPT ![c].state = "paused"]
    /\ UNCHANGED <<images, nextId, held, checkpoints, persist, store, lastCp, lastRb, rbRet,
                   notEngine>>

\* The process ends and a later one calls rollback.New with the same storage
\* path; the caller's Sessions are those it had.
ManagerRestart(loadFails) ==
    /\ rbRet.op = "idle"
    /\ checkpoints # EmptyMap
    /\ checkpoints' = load(store, persist, loadFails)
    /\ lastCp' = [i \in 1..Len(lastCp) |-> NoCheckpoint]
    /\ lastRb' = [i \in 1..Len(lastRb) |-> 0]
    /\ rbRet' = [RbIdle EXCEPT !.op = "New", !.clean = ~loadFails,
                               !.checkpointsBefore = checkpoints]
    /\ UNCHANGED <<containers, images, nextId, held, persist, store, notEngine>>

\* The caller has taken the result.
EngineReturn ==
    /\ rbRet.op # "idle"
    /\ rbRet' = RbIdle
    /\ UNCHANGED <<containers, images, nextId, held, checkpoints, persist, store, lastCp,
                   lastRb, notEngine>>

\* ---------------------------------------------------------- specifications
NoPolicy ==
    /\ sandbox = DefaultSandbox
    /\ config = [block |-> <<>>, allow |-> <<>>]
    /\ policyAttached = FALSE
    /\ policyFile = NoFile
    /\ PolicyIdle

\* The policy engine and the policy shell of one session.
InitPolicy == PolicyInit /\ MatchInit /\ FileInit /\ DockerInit /\ OrchInit /\ ManagerInit
NextPolicy ==
    \/ \E c \in Commands : HostEvaluate(c)
    \/ \E c \in Commands : ShellDashC(c)
    \/ \E c \in Commands : ShellInteractive(c)
    \/ PolicyReturn
SpecPolicy == InitPolicy /\ [][NextPolicy]_vars

\* The policy engine of a project that has no configuration file.
InitDefault ==
    /\ sandbox = DefaultSandbox
    /\ config = DefaultConfig
    /\ policyAttached = TRUE
    /\ policyFile = generatePolicyMount(config)
    /\ PolicyIdle
    /\ MatchInit /\ FileInit /\ DockerInit /\ OrchInit /\ ManagerInit
NextDefault ==
    \/ \E c \in DangerousCommands : HostEvaluate(c)
    \/ PolicyReturn
SpecDefault == InitDefault /\ [][NextDefault]_vars

\* The policy shell of one session while commands in the container write files.
InitMount == InitPolicy
NextMount ==
    \/ \E path \in ContainerPaths : ContainerWrites(path, generatePolicyMount(AllowAll))
    \/ \E c \in Commands : ShellDashC(c)
    \/ PolicyReturn
SpecMount == InitMount /\ [][NextMount]_vars

\* The default rules evaluating command lists.
InitChain == InitDefault
NextChain ==
    \/ \E c \in ChainedCommands : HostEvaluate(c)
    \/ PolicyReturn
SpecChain == InitChain /\ [][NextChain]_vars

\* ExecCommand on one session of an engine.
InitExec == InitPolicy
NextExec ==
    \/ \E cmd \in Argvs, env \in ExecEnvs : ExecCommand(cmd, env)
    \/ PolicyReturn
SpecExec == InitExec /\ [][NextExec]_vars

\* The two pattern matchers on every pattern and command of the bounds.
InitMatch == NoPolicy /\ MatchInit /\ FileInit /\ DockerInit /\ OrchInit /\ ManagerInit
NextMatch ==
    \/ \E p \in Patterns, c \in Commands : MatchBoth(p, c)
    \/ MatchReturn
SpecMatch == InitMatch /\ [][NextMatch]_vars

\* File-access evaluation on every path of the bounds.
InitFile == NoPolicy /\ MatchInit /\ FileInit /\ DockerInit /\ OrchInit /\ ManagerInit
NextFile ==
    \/ \E p \in Paths : FileAccess(p)
    \/ FileReturn
SpecFile == InitFile /\ [][NextFile]_vars

\* One project: Orchestrators, one after another, spawning and stopping agents.
InitOrch == NoPolicy /\ MatchInit /\ FileInit /\ DockerInit /\ OrchInit /\ ManagerInit
NextOrch ==
    \/ \E n \in Agents, ms \in Times, env \in SpawnEnvs : SpawnAgent(n, ms, env)
    \/ \E n \in Agents, merge \in BOOLEAN, env \in StopEnvs : StopAgent(n, merge, env)
    \/ OrchReturn
    \/ NewOrchestrator
SpecOrch == InitOrch /\ [][NextOrch]_vars

\* The Orchestrator while the agents work in their worktrees.
InitMerge == InitOrch
NextMerge ==
    \/ \E n \in Agents, ms \in Times, env \in SpawnEnvs : SpawnAgent(n, ms, env)
    \/ \E n \in Agents, merge \in BOOLEAN, env \in StopEnvs : StopAgent(n, merge, env)
    \/ \E n \in Agents, commit \in BOOLEAN : AgentWorks(n, commit)
    \/ OrchReturn
    \/ NewOrchestrator
SpecMerge == InitMerge /\ [][NextMerge]_vars

\* One Orchestrator and a caller that keeps and changes what ListAgents
\* returned.
InitAgents == InitOrch
NextAgents ==
    \/ \E n \in Agents : SpawnAgent(n, 1, [fails |-> "ok", cleanup |-> FALSE])
    \/ \E n \in Agents, merge \in BOOLEAN : StopAgent(n, merge, "ok")
    \/ OrchReturn
    \/ ListAgents
    \/ \E k \in CallerKeys : CallerPuts(k)
    \/ \E k \in CallerKeys : CallerDeletes(k)
    \/ \E k \in CallerKeys : CallerWrites(k)
SpecAgents == InitAgents /\ [][NextAgents]_vars

\* Goroutines calling one Orchestrator concurrently, one call each, all
\* SpawnAgent and StopAgent calls for the same agent name.
Contended == {"a"}
InitLock == InitOrch
NextLock ==
    \/ \E t \in Threads, n \in Contended :
          \/ ThreadCall(t, "SpawnAgent", n, FALSE)
          \/ \E merge \in BOOLEAN : ThreadCall(t, "StopAgent", n, merge)
    \/ \E t \in Threads : ThreadCall(t, "ListAgents", "", FALSE)
    \/ \E t \in Threads : Lock(t)
    \/ \E t \in Threads : Unlock(t)
    \/ \E t \in Threads : SpawnExists(t)
    \/ \E t \in Threads, addFails \in BOOLEAN : SpawnCreateWorktree(t, addFails)
    \/ \E t \in Threads, ms \in Times, env \in SpawnEnvs : SpawnCreateSession(t, ms, env)
    \/ \E t \in Threads : SpawnSetWorktreeDir(t)
    \/ \E t \in Threads : SpawnPut(t)
    \/ \E t \in Threads, listFails \in BOOLEAN : StopResolve(t, listFails)
    \/ \E t \in Threads, env \in StopSessionEnvs : StopStopSession(t, env)
    \/ \E t \in Threads, mergeFails \in BOOLEAN : StopMerge(t, mergeFails)
    \/ \E t \in Threads, removeFails \in BOOLEAN : StopCleanup(t, removeFails)
    \/ \E t \in Threads : RLock(t)
    \/ \E t \in Threads : ListCopy(t)
SpecLock == InitLock /\ [][NextLock]_vars

\* The sandbox engine and the rollback manager on the Sessions of one caller.
InitEngine ==
    /\ sandbox = DefaultSandbox
    /\ config = [block |-> <<>>, allow |-> <<>>]
    /\ policyAttached \in BOOLEAN
    /\ policyFile = IF policyAttached THEN generatePolicyMount(config) ELSE NoFile
    /\ PolicyIdle
    /\ MatchInit /\ FileInit /\ DockerInit /\ OrchInit
    /\ \E p \in BOOLEAN : ManagerNew(p)
NextEngine ==
    \/ \E n \in Agents, ms \in Times, env \in CreateSessionEnvs : CreateSession(n, ms, env)
    \/ \E i \in 1..MaxSessions, env \in StopSessionEnvs : StopSession(i, env)
    \/ \E i \in 1..MaxSessions, ms \in Times, env \in CheckpointEnvs : CreateCheckpoint(i, ms, env)
    \/ \E i \in 1..MaxSessions, id \in Times, env \in RollbackEnvs : Rollback(i, id, env)
    \/ \E i \in 1..MaxSessions, env \in RollbackEnvs : RollbackToLatest(i, env)
    \/ \E loadFails \in BOOLEAN : ManagerRestart(loadFails)
    \/ EngineReturn
SpecEngine == InitEngine /\ [][NextEngine]_vars

\* The caller lets go of a Session it holds (the rollback command keeps one
\* for a single invocation); the container and the manager's checkpoints of
\* that session stay.
Release(i) ==
    /\ rbRet.op = "idle"
    /\ i <= Len(held)
    /\ held' = [j \in 1..(Len(held) - 1) |-> IF j < i THEN held[j] ELSE held[j + 1]]
    /\ lastCp' = [j \in 1..(Len(lastCp) - 1) |-> IF j < i THEN lastCp[j] ELSE lastCp[j + 1]]
    /\ lastRb' = [j \in 1..(Len(lastRb) - 1) |-> IF j < i THEN lastRb[j] ELSE lastRb[j + 1]]
    /\ UNCHANGED <<containers, images, nextId, checkpoints, persist, store, rbRet, notEngine>>

\* Manager.CreateCheckpoint called by several goroutines on one Manager, which
\* has no lock: the call goes statement by statement, other goroutines in
\* between. A goroutine enters with the Session it holds; the calls on one
\* session follow each other, so no two goroutines are in a call on the same one.
CpCall(g, i, ms) ==
    /\ cpThr[g].pc = "idle"
    /\ i <= Len(held)
    /\ \A h \in CpCallers \ {g} : cpThr[h].pc = "idle" \/ cpThr[h].session.ID # held[i].ID
    /\ cpThr' = [cpThr EXCEPT ![g] = [CpIdle EXCEPT !.pc = "commit", !.session = held[i],
                                                    !.ms = ms]]
    /\ UNCHANGED <<view, dockerVars, rbVars, notEngineCaller>>

\* ContainerCommit and the Checkpoint value made of its answer.
CpCommit(g, commitFails) ==
    LET img == Cardinality(DOMAIN images) + 1
        session == cpThr[g].session
        ok == ContainerCommitOk(containers, session.ContainerID, commitFails)
    IN  /\ cpThr[g].pc = "commit"
        /\ img <= MaxImages
        /\ images' = IF ok THEN ImageCommitted(images, img, containers, session.ContainerID)
                     ELSE images
        /\ cpThr' = [cpThr EXCEPT ![g] =
                        IF ok THEN [@ EXCEPT !.pc = "append",
                                             !.cp = [ID |-> cpThr[g].ms,
                                                     SessionID |-> session.ID,
                                                     ImageID |-> img]]
                        ELSE [@ EXCEPT !.pc = "done", !.err = "creating checkpoint"]]
        /\ UNCHANGED <<view, containers, nextId, rbVars, notEngineCaller>>

\* m.checkpoints[session.ID] = append(...): the goroutine starts writing the
\* map. Two goroutines writing it at once are a data race.
CpAppendBegin(g) ==
    LET others == {h \in CpCallers \ {g} : cpThr[h].pc = "writing"}
    IN  /\ cpThr[g].pc = "append"
        /\ cpThr' = [h \in CpCallers |->
                        IF h = g THEN [cpThr[h] EXCEPT !.pc = "writing", !.raced = others # {}]
                        ELSE IF h \in others THEN [cpThr[h] EXCEPT !.raced = TRUE]
                        ELSE cpThr[h]]
        /\ UNCHANGED <<view, dockerVars, rbVars, notEngineCaller>>

\* What a write of the map can come to: alone it stores the entry; raced it
\* stores it, loses it, or the runtime ends the process ("concurrent map writes").
AppendOutcomes(g) == IF cpThr[g].raced THEN {"stored", "lost", "crash"} ELSE {"stored"}
Crashed == [g \in CpCallers |-> [cpThr[g] EXCEPT !.pc = "crashed"]]

\* The write of the map ends; save returns at once without a storage path.
CpAppendEnd(g, outcome) ==
    LET sid == cpThr[g].session.ID
    IN  /\ cpThr[g].pc = "writing"
        /\ outcome \in AppendOutcomes(g)
        /\ checkpoints' = IF outcome = "stored"
                          THEN MapPut(checkpoints, sid,
                                      Append(ListCheckpoints(checkpoints, sid), cpThr[g].cp))
                          ELSE checkpoints
        /\ cpThr' = IF outcome = "crash" THEN Crashed
                    ELSE [cpThr EXCEPT ![g] = [@ EXCEPT !.pc = IF persist THEN "marshal"
                                                               ELSE "done",
                                                        !.raced = FALSE]]
        /\ UNCHANGED <<view, dockerVars, held, persist, store, lastCp, lastRb, rbRet,
                       notEngineCaller>>

\* save, first half: json.MarshalIndent reads the map; read while another
\* goroutine writes it, the runtime may end the process.
MarshalOutcomes(g) ==
    IF \E h \in CpCallers \ {g} : cpThr[h].pc = "writing" THEN {"read", "crash"} ELSE {"read"}
CpMarshal(g, outcome) ==
    /\ cpThr[g].pc = "marshal"
    /\ outcome \in MarshalOutcomes(g)
    /\ cpThr' = IF outcome = "crash" THEN Crashed
                ELSE [cpThr EXCEPT ![g] = [@ EXCEPT !.pc = "write",
                                                    !.data = MarshalCheckpoints(checkpoints)]]
    /\ UNCHANGED <<view, dockerVars, rbVars, notEngineCaller>>

\* save, second half: os.WriteFile replaces the file by what was marshalled;
\* CreateCheckpoint drops save's error and returns the checkpoint.
CpWrite(g, writeFails) ==
    /\ cpThr[g].pc = "write"
    /\ store' = IF writeFails THEN store ELSE [exists |-> TRUE, data |-> cpThr[g].data]
    /\ cpThr' = [cpThr EXCEPT ![g] = [@ EXCEPT !.pc = "done"]]
    /\ UNCHANGED <<view, dockerVars, held, checkpoints, persist, lastCp, lastRb, rbRet,
                   notEngineCaller>>

\* The rollback manager with two goroutines checkpointing the Sessions of
\* successive callers.
InitCheckpoints == InitEngine
NextCheckpoints ==
    \/ \E n \in Agents : CreateSession(n, 1, "ok")
    \/ \E i \in 1..MaxSessions : Release(i)
    \/ EngineReturn
    \/ \E g \in CpCallers, i \in 1..MaxSessions, ms \in Times : CpCall(g, i, ms)
    \/ \E g \in CpCallers, commitFails \in BOOLEAN : CpCommit(g, commitFails)
    \/ \E g \in CpCallers : CpAppendBegin(g)
    \/ \E g \in CpCallers, outcome \in {"stored", "lost", "crash"} : CpAppendEnd(g, outcome)
    \/ \E g \in CpCallers, outcome \in {"read", "crash"} : CpMarshal(g, outcome)
    \/ \E g \in CpCallers : CpWrite(g, FALSE)
SpecCheckpoints == InitCheckpoints /\ [][NextCheckpoints]_vars


\* The sandbox engine creating and stopping the Sessions of one caller.
InitStop == InitEngine
NextStop ==
    \/ \E n \in Agents, ms \in Times, env \in CreateSessionEnvs : CreateSession(n, ms, env)
    \/ \E i \in 1..MaxSessions, env \in StopSessionEnvs : StopSession(i, env)
    \/ EngineReturn
SpecStop == InitStop /\ [][NextStop]_vars

\* The sandbox engine listing the sessions of a daemon it shares.
InitList == InitEngine
NextList ==
    \/ \E n \in Agents, ms \in Times, env \in CreateSessionEnvs : CreateSession(n, ms, env)
    \/ \E i \in 1..MaxSessions, env \in StopSessionEnvs : StopSession(i, env)
    \/ \E listFails \in BOOLEAN : ListSessionsOp(listFails)
    \/ ForeignRun
    \/ \E c \in 1..MaxCreated : DockerPause(c)
    \/ EngineReturn
SpecList == InitList /\ [][NextList]_vars

\* The sandbox engine of a process started with any sandbox settings.
InitHarden ==
    /\ sandbox \in SandboxConfigs
    /\ config = [block |-> <<>>, allow |-> <<>>]
    /\ policyAttached \in BOOLEAN
    /\ policyFile = IF policyAttached THEN generatePolicyMount(config) ELSE NoFile
    /\ PolicyIdle
    /\ MatchInit /\ FileInit /\ DockerInit /\ OrchInit
    /\ \E p \in BOOLEAN : ManagerNew(p)
NextHarden ==
    \/ \E n \in Agents, ms \in Times, env \in CreateSessionEnvs : CreateSession(n, ms, env)
    \/ \E i \in 1..MaxSessions, env \in StopSessionEnvs : StopSession(i, env)
    \/ EngineReturn
SpecHarden == InitHarden /\ [][NextHarden]_vars

\* The rollback manager serving the Sessions of successive callers, the
\* daemon creating every container asked for.
InitRollback ==
    /\ sandbox = DefaultSandbox
    /\ config = [block |-> <<>>, allow |-> <<>>]
    /\ policyAttached = TRUE
    /\ policyFile = generatePolicyMount(config)
    /\ PolicyIdle
    /\ MatchInit /\ FileInit /\ DockerInit /\ OrchInit
    /\ ManagerInit
NextRollback ==
    \/ \E n \in Agents : CreateSession(n, 1, "ok")
    \/ \E i \in 1..MaxSessions, ms \in Times :
          CreateCheckpoint(i, ms, [commit |-> FALSE, save |-> FALSE])
    \/ \E i \in 1..MaxSessions, id \in Times, createFails \in BOOLEAN :
          Rollback(i, id, [NoFailure EXCEPT !.create = createFails])
    \/ \E i \in 1..MaxSessions : Release(i)
    \/ EngineReturn
SpecRollback == InitRollback /\ [][NextRollback]_vars


\* -------------------------------------------------------------- properties
\* Some rule of the list matches the command, by the host matcher.
HostMatchesAny(list, command) ==
    \E i \in 1..Len(list) : matchPattern(list[i].pattern, command)
\* Some rule of the list matches the command, by the shell matcher.
ShellMatchesAny(list, command) ==
    \E i \in 1..Len(list) : match_pattern(list[i].pattern, command)

\* C1: whenever some block rule matches the trimmed command, EvaluateCommand
\* returns Allowed = false with Action = block, whatever the allow rules match.
C1_BlockPrecedence ==
    polPc = "host" =>
        (HostMatchesAny(config.block, TrimSpace(polCmd)) =>
            ~hostResult.Allowed /\ hostResult.Action = ActionBlock)

\* C1 witness: a block rule and an allow rule both match, and the result is blocked.
C1_Witness ==
    /\ polPc = "host"
    /\ HostMatchesAny(config.block, TrimSpace(polCmd))
    /\ HostMatchesAny(config.allow, TrimSpace(polCmd))
    /\ ~hostResult.Allowed

\* C2: a command no rule matches is blocked with the reason "Command not in
\* allowlist", and a command is allowed only if some allow rule matches it.
C2_DefaultDeny ==
    polPc = "host" =>
        LET c == TrimSpace(polCmd)
        IN  /\ (~HostMatchesAny(config.block, c) /\ ~HostMatchesAny(config.allow, c)) =>
                  /\ ~hostResult.Allowed
                  /\ hostResult.Action = ActionBlock
                  /\ hostResult.Reason = NotInAllowlist
            /\ hostResult.Allowed => HostMatchesAny(config.allow, c)

\* C2 witness: rules of both lists exist, none matches the command, and the
\* result is the default denial.
C2_Witness ==
    /\ polPc = "host"
    /\ Len(config.block) > 0 /\ Len(config.allow) > 0
    /\ TrimSpace(polCmd) # <<>>
    /\ ~HostMatchesAny(config.block, TrimSpace(polCmd))
    /\ ~HostMatchesAny(config.allow, TrimSpace(polCmd))
    /\ ~hostResult.Allowed /\ hostResult.Reason = NotInAllowlist

\* C3: for a pattern P followed by " *", matchPattern reports a match exactly
\* when the command equals P or starts with P followed by a space.
C3_SpaceStarExactly ==
    (mPc = "done" /\ HasSuffix(mPattern, SpaceStar)) =>
        LET P == SubSeq(mPattern, 1, Len(mPattern) - 2)
        IN  mHost <=> (mCmd = P \/ HasPrefix(mCmd, P \o <<" ">>))

\* The path's non-empty components, in order.
Components(path) == SelectSeq(SplitSlash(path), LAMBDA c : c # <<>>)

\* Sensitive as C4 words it: the last component is .env or begins with
\* ".env.", or a component before the last is .ssh, .aws or .gnupg.
ClaimSensitive(path) ==
    LET cs == Components(path)
    IN  /\ cs # <<>>
        /\ \/ cs[Len(cs)] = DotEnv
           \/ HasPrefix(cs[Len(cs)], DotEnvDot)
           \/ \E i \in 1..(Len(cs) - 1) : cs[i] \in sensitiveParents

\* C4: every path whose base name is .env or begins with ".env.", or that has
\* a directory component .ssh, .aws or .gnupg, is blocked, under the
\* workspace root as anywhere else.
C4_SensitiveBlocked ==
    (fPc = "done" /\ ClaimSensitive(fPath)) =>
        ~fResult.Allowed /\ fResult.Action = ActionBlock

\* C4 witness: a sensitive path under /workspace/ was evaluated and blocked.
C4_Witness ==
    /\ fPc = "done"
    /\ ClaimSensitive(fPath)
    /\ HasPrefix(fPath, WorkspaceRoot \o <<"/">>)
    /\ ~fResult.Allowed

\* Inside the workspace root: the directory itself or a path below it.
InsideWorkspace(path) == path = WorkspaceRoot \/ HasPrefix(path, WorkspaceRoot \o <<"/">>)

\* A path none of EvaluateFileAccess's sensitive-file tests concerns.
NotSensitive(path) ==
    /\ ~ClaimSensitive(path)
    /\ Components(path) # <<>> => Components(path)[Len(Components(path))] \notin sensitiveFiles
    /\ ~Contains(path, DotDocker)

\* C5: a path with no sensitive base name and no sensitive directory
\* component is allowed if and only if it is /workspace or lies below
\* /workspace/.
C5_AllowedIffInsideWorkspace ==
    (fPc = "done" /\ NotSensitive(fPath)) =>
        (fResult.Allowed <=> InsideWorkspace(fPath))

\* C6: for the artifact generated from the engine's rules, the shell's
\* check_policy admits a command exactly when EvaluateCommand allows it.
C6_ShellAgreesWithHost ==
    (polPc = "host" /\ policyAttached) =>
        ((check_policy(policyFile, polCmd).rc = 0) <=> hostResult.Allowed)

\* C7: with a policy engine attached, no command is executed through the
\* policy shell without having been checked against the policy.
C7_NoUncheckedCommand ==
    (polPc = "shell" /\ policyAttached /\ shellRun.executed) => shellRun.checked

\* C8: claudeshield-shell -c executes the command exactly when no block rule
\* and some allow rule matches it if the artifact exists, refuses with exit
\* status 126 otherwise, and executes every command if the artifact is absent.
C8_DashCDecision ==
    (polPc = "shell" /\ shellRun.mode = "-c") =>
        IF policyFile.exists
        THEN /\ shellRun.executed <=>
                  (~ShellMatchesAny(config.block, polCmd) /\ ShellMatchesAny(config.allow, polCmd))
             /\ ~shellRun.executed => shellRun.exit = ExitDenied
        ELSE shellRun.executed

\* C8 witness: with the artifact present a command that a block rule and an
\* allow rule both match was refused with status 126.
C8_Witness ==
    /\ polPc = "shell" /\ shellRun.mode = "-c"
    /\ policyFile.exists
    /\ ShellMatchesAny(config.block, polCmd)
    /\ ShellMatchesAny(config.allow, polCmd)
    /\ ~shellRun.executed /\ shellRun.exit = ExitDenied

\* C9: on one Orchestrator, SpawnAgent(n) fails with "already exists" exactly
\* when n has a live map entry (a successful spawn not yet followed by a
\* successful stop), and then creates no worktree and no container; after a
\* successful StopAgent(n, merge = false) the next SpawnAgent(n) is not
\* rejected as a duplicate.
C9_DuplicateSpawn ==
    orchRet.op = "SpawnAgent" =>
        /\ orchRet.wasLive <=> orchRet.hadEntry
        /\ (orchRet.err = ErrAlreadyExists) <=> orchRet.wasLive
        /\ orchRet.err = ErrAlreadyExists =>
              /\ DOMAIN containers = orchRet.containersBefore
              /\ worktrees = orchRet.worktreesBefore
        /\ orchRet.afterStop => orchRet.err # ErrAlreadyExists

\* C9 witness: a second SpawnAgent of a live agent was rejected as a duplicate.
C9_Witness ==
    /\ orchRet.op = "SpawnAgent"
    /\ orchRet.wasLive
    /\ orchRet.err = ErrAlreadyExists
    /\ orchRet.agent \in DOMAIN sessions

\* C10: when CreateCheckpoint has returned checkpoint c for a session and the
\* next call on the session, Rollback to c's id, succeeds, the session's
\* container reference differs from the one before, it names a started
\* container created from c's image, the session id is unchanged, and the
\* session's list still holds c and every checkpoint listed before.
C10_CheckpointRoundTrip ==
    (/\ rbRet.op = "Rollback" /\ rbRet.err = ""
     /\ rbRet.prevCp # NoCheckpoint /\ rbRet.checkpointID = rbRet.prevCp.ID) =>
        LET s == held[rbRet.slot]
            list == ListCheckpoints(checkpoints, s.ID)
        IN  /\ s.ContainerID # rbRet.before.ContainerID
            /\ s.ContainerID \in DOMAIN containers
            /\ containers[s.ContainerID].state = "running"
            /\ containers[s.ContainerID].image = rbRet.prevCp.ImageID
            /\ s.ID = rbRet.before.ID
            /\ \E i \in 1..Len(list) : list[i] = rbRet.prevCp
            /\ \A j \in 1..Len(rbRet.listBefore) :
                   \E i \in 1..Len(list) : list[i] = rbRet.listBefore[j]

\* C11: RollbackToLatest on a session whose checkpoint list is not empty
\* restores the container from the image of the list's last element; on a
\* session without checkpoints it fails and changes nothing.
C11_LatestRestored ==
    rbRet.op = "RollbackToLatest" =>
        LET s == held[rbRet.slot]
            n == Len(rbRet.listBefore)
        IN  IF n > 0
            THEN rbRet.err = "" =>
                    /\ s.ContainerID \in DOMAIN containers
                    /\ containers[s.ContainerID].image = rbRet.listBefore[n].ImageID
            ELSE /\ rbRet.err # ""
                 /\ containers = rbRet.containersBefore
                 /\ s = rbRet.before

\* C12: a rollback leaves the session's checkpoint list as it was, and after
\* a rollback to the checkpoint at index i a rollback to a later checkpoint
\* cj of the list, asked for by its id, finds cj and succeeds.
C12_RollbackKeepsHistory ==
    rbRet.op \in {"Rollback", "RollbackToLatest"} =>
        /\ ListCheckpoints(checkpoints, held[rbRet.slot].ID) = rbRet.listBefore
        /\ \A j \in 1..Len(rbRet.listBefore) :
              (/\ rbRet.op = "Rollback" /\ rbRet.clean
               /\ rbRet.prevIndex > 0 /\ j > rbRet.prevIndex
               /\ rbRet.checkpointID = rbRet.listBefore[j].ID) =>
                  rbRet.err = "" /\ rbRet.index = j

\* C13: a Manager built with a storage path after a restart, its load having
\* read the file, holds for every session id the checkpoint sequence the
\* Manager before the restart held.
C13_CheckpointsSurviveRestart ==
    (rbRet.op = "New" /\ persist /\ rbRet.clean) =>
        checkpoints = rbRet.checkpointsBefore

\* C14: every blocked result of EvaluateCommand and of EvaluateFileAccess
\* carries a non-empty reason.
C14_BlockedHasReason ==
    /\ (polPc = "host" /\ ~hostResult.Allowed) => hostResult.Reason # ""
    /\ (fPc = "done" /\ ~fResult.Allowed) => fResult.ReasonText # ""

\* C15: the container that a held Session names, after CreateSession and any
\* checkpoints and rollbacks, exists, carries the management label with the
\* session-id, agent and project labels of the Session, and is listed by
\* ListSessions.
C15_ContainerRefManaged ==
    \A i \in 1..Len(held) :
        held[i].State # SessionStopped =>
            LET c == held[i].ContainerID
            IN  /\ c \in DOMAIN containers
                /\ containers[c].labels.managed
                /\ containers[c].labels.session = held[i].ID
                /\ containers[c].labels.agent = held[i].AgentName
                /\ containers[c].labels.project = held[i].ProjectDir
                /\ \E k \in 1..Len(ListSessions(containers)) : ListSessions(containers)[k] = c

\* Position of the first occurrence of call x in the calls of an outcome, 0
\* when it was not made.
CallAt(calls, x) ==
    LET at == {k \in 1..Len(calls) : calls[k] = x}
    IN  IF at = {} THEN 0 ELSE Min(at)

DockerCalls == {"ContainerExecCreate", "ContainerExecAttach"}

\* C16: every ExecCommand on an engine with a policy engine evaluates the
\* command before any container call; a blocked command gets exactly one
\* audit entry with action block, an error, and no exec in the container; an
\* allowed command gets exactly one audit entry with action allow, logged
\* before the exec is created, and what runs runs the given arguments in
\* /workspace.
C16_ExecPolicyFirst ==
    (polPc = "exec" /\ policyAttached) =>
        LET r == execRet
            res == EvaluateCommand(config, Join(execCmd))
        IN  /\ r.calls # <<>> /\ r.calls[1] = "EvaluateCommand"
            /\ Len(r.audit) = 1
            /\ r.audit[1].Command = Join(execCmd)
            /\ r.audit[1].Action = IF res.Allowed THEN ActionAllow ELSE ActionBlock
            /\ ~res.Allowed =>
                  /\ r.err # ""
                  /\ r.execs = <<>> /\ r.ran = <<>>
                  /\ \A k \in 1..Len(r.calls) : r.calls[k] \notin DockerCalls
            /\ res.Allowed =>
                  /\ CallAt(r.calls, "Log") > 0
                  /\ CallAt(r.calls, "Log") < CallAt(r.calls, "ContainerExecCreate")
                  /\ \A k \in 1..Len(r.execs) :
                        r.execs[k] = [Cmd |-> execCmd, WorkingDir |-> WorkspaceDir]
                  /\ r.err = "" => r.ran = <<[Cmd |-> execCmd, WorkingDir |-> WorkspaceDir]>>

\* An ExecCommand whose command a block rule matched has returned.
C16_Witness ==
    /\ polPc = "exec" /\ policyAttached
    /\ execRet.result.Rule # NoRule /\ ~execRet.result.Allowed
    /\ execRet.audit # <<>> /\ execRet.err = "policy blocked"
    /\ Len(execCmd) = 2

\* The changes agent n has made as the repository repo holds them.
ChangesOf(repo, n) ==
    repo.branch[n] \cup (IF repo.dirty[n] THEN {"uncommitted"} ELSE {})

\* C17: when StopAgent(n, merge = true) returns success for an agent that
\* SpawnAgent created, every change the agent made in its worktree, committed
\* on its branch or still uncommitted when the call began, is contained in the
\* branch checked out in the project directory.
C17_MergeTakesAllChanges ==
    (/\ orchRet.op = "StopAgent" /\ orchRet.merge
     /\ orchRet.err = "" /\ orchRet.wasLive) =>
        \A c \in ChangesOf(orchRet.workBefore, orchRet.agent) :
            <<orchRet.agent, c>> \in work.main

\* C18: a StopAgent(n, merge) that finds no map entry for n but a managed
\* container of agent n in the engine's listing, and completes, has the
\* effects of a stop resolved from the map: a container is stopped and
\* removed, the agent's changes are merged when merge is requested, and the
\* agent's worktree and branch are gone.
C18_FallbackSameEffects ==
    (orchRet.op = "StopAgent" /\ ~orchRet.hadEntry /\ orchRet.err = "") =>
        /\ orchRet.containersBefore \ DOMAIN containers # {}
        /\ \A c \in DOMAIN containers :
              containers[c].labels.agent = orchRet.agent => c \in orchRet.containersBefore
        /\ orchRet.agent \notin worktrees
        /\ orchRet.agent \notin branches
        /\ orchRet.merge =>
              \A c \in ChangesOf(orchRet.workBefore, orchRet.agent) :
                  <<orchRet.agent, c>> \in work.main

\* C19: when the merge step of StopAgent(n, merge = true) fails, StopAgent
\* returns the merge's error wrapped in its own, and the agent's worktree, its
\* branch and its map entry are all left in place.
C19_MergeFailureKeepsState ==
    (orchRet.op = "StopAgent" /\ orchRet.err = "merging worktree") =>
        /\ orchRet.merge
        /\ orchRet.cause = "merge failed"
        /\ orchRet.agent \in worktrees /\ worktrees = orchRet.worktreesBefore
        /\ orchRet.agent \in branches /\ branches = orchRet.branchesBefore
        /\ orchRet.agent \in DOMAIN sessions
        /\ sessions[orchRet.agent].WorktreeDir = WorktreeDirOf(orchRet.agent)

\* A StopAgent with merge of a spawned agent has failed in its merge step.
C19_Witness ==
    /\ orchRet.op = "StopAgent" /\ orchRet.err = "merging worktree"
    /\ orchRet.wasLive /\ orchRet.merge
    /\ orchRet.agent \in orchRet.worktreesBefore

\* C20: when sandbox creation fails inside SpawnAgent(n), SpawnAgent returns
\* that error, the Orchestrator's map has no entry for n, and neither the
\* worktree directory nor the agent branch created for the attempt exists.
C20_FailedSpawnLeavesNothing ==
    (orchRet.op = "SpawnAgent" /\ orchRet.err = "creating sandbox") =>
        /\ ~orchRet.hadEntry
        /\ orchRet.agent \notin DOMAIN sessions
        /\ orchRet.agent \notin worktrees
        /\ orchRet.agent \notin branches

\* C21: under the default configuration EvaluateCommand blocks every command
\* of the forms sudo <args>, rm -rf /, rm -rf /*, chmod 777 <args>,
\* curl <args> | sh and curl <args> | bash, whatever the arguments.
C21_DefaultBlocksDangerous ==
    (polPc = "host" /\ config = DefaultConfig /\ polCmd \in DangerousCommands) =>
        ~hostResult.Allowed /\ hostResult.Action = ActionBlock

\* A curl piped to sh whose argument holds a path separator, which the
\* pattern "curl * | sh" does not match, has been evaluated.
C21_Witness ==
    /\ polPc = "host" /\ config = DefaultConfig
    /\ polCmd = <<"c", "u", "r", "l", " ", "a", "/", "a", " ", "|", " ", "s", "h">>
    /\ hostResult.Rule = NoRule /\ ~hostResult.Allowed

\* C22: the container a successful rollback started has the workspace bind
\* mount, the policy-artifact mount, the dropped capabilities, the
\* no-new-privileges option, the network mode and the resource limits that
\* CreateSession gave the session's container.
C22_RollbackKeepsIsolation ==
    (rbRet.op \in {"Rollback", "RollbackToLatest"} /\ rbRet.err = "") =>
        LET s == held[rbRet.slot]
        IN  /\ s.ContainerID \in DOMAIN containers
            /\ containers[s.ContainerID].hostCfg =
                  SessionHostConfig(s.ProjectDir, policyAttached)

\* Goroutine t is inside the body of SpawnAgent or StopAgent: past Lock and
\* not yet returned.
InBody(t) ==
    thr[t].op \in {"SpawnAgent", "StopAgent"} /\ thr[t].pc \notin {"Lock", "done"}

\* The goroutines whose call op for agent n has returned success.
Succeeded(op, n) ==
    {t \in Threads : /\ thr[t].op = op /\ thr[t].agent = n
                     /\ thr[t].pc = "done" /\ thr[t].err = ""}

RunningFor(cs, s) ==
    {c \in DOMAIN cs : cs[c].labels.session = s.ID /\ cs[c].state = "running"}

\* C24: once a Session is Stopped no rollback changes its state again or
\* starts a container for it.
C24_StoppedIsTerminal ==
    (/\ rbRet.op \in {"Rollback", "RollbackToLatest"}
     /\ rbRet.before.State = SessionStopped) =>
        /\ held[rbRet.slot].State = SessionStopped
        /\ RunningFor(containers, held[rbRet.slot]) \subseteq
              RunningFor(rbRet.containersBefore, held[rbRet.slot])

\* C25: whenever CreateCheckpoint returns success on a manager with a storage
\* path, the checkpoint file holds the whole in-memory index, the new
\* checkpoint included.
C25_WriteThrough ==
    (rbRet.op = "CreateCheckpoint" /\ rbRet.err = "" /\ persist) =>
        /\ store.exists
        /\ UnmarshalCheckpoints(store.data) = checkpoints
        /\ \E k \in DOMAIN store.data :
              \E i \in 1..Len(store.data[k]) :
                  UnmarshalCheckpoints(store.data)[k][i] = rbRet.cp

\* C26: the checkpoints of a session are strictly ordered by their
\* time-derived ids, so the ids of one list are pairwise distinct, and a
\* successful Rollback to the id CreateCheckpoint has just returned restores
\* that very checkpoint.
C26_StrictlyTimeOrdered ==
    /\ \A k \in DOMAIN checkpoints :
          \A i, j \in 1..Len(checkpoints[k]) :
              i < j => checkpoints[k][i].ID < checkpoints[k][j].ID
    /\ (/\ rbRet.op = "Rollback" /\ rbRet.err = ""
        /\ rbRet.prevCp # NoCheckpoint /\ rbRet.checkpointID = rbRet.prevCp.ID) =>
           rbRet.target = rbRet.prevCp

\* C27: a Rollback to a checkpoint id of the session's list succeeds whether
\* or not the stop and the removal of the session's current container
\* succeed, as long as the creation and the start of the new container are
\* not failed by the environment.
C27_StopFailureHarmless ==
    (/\ rbRet.op = "Rollback"
     /\ \E j \in 1..Len(rbRet.listBefore) : rbRet.listBefore[j].ID = rbRet.checkpointID
     /\ ~rbRet.env.create /\ ~rbRet.env.start) =>
        rbRet.err = ""

\* C28: a Rollback of a session without checkpoints, or to an id its list does
\* not hold (an id of another session's list included), returns the not-found
\* error carrying the identifier and does nothing: the daemon's containers,
\* the Session (container id, UpdatedAt) and the checkpoints are as before.
C28_NotFoundNoEffect ==
    (/\ rbRet.op = "Rollback"
     /\ \A j \in 1..Len(rbRet.listBefore) : rbRet.listBefore[j].ID # rbRet.checkpointID) =>
        /\ IF rbRet.before.ID \in DOMAIN rbRet.checkpointsBefore
           THEN rbRet.err = "checkpoint not found"
                /\ rbRet.names = NamesCheckpoint(rbRet.checkpointID)
           ELSE rbRet.err = "no checkpoints"
                /\ rbRet.names = NamesSession(rbRet.before.ID)
        /\ containers = rbRet.containersBefore
        /\ held[rbRet.slot] = rbRet.before
        /\ ~rbRet.stamped
        /\ checkpoints = rbRet.checkpointsBefore
\* A session with a checkpoint of its own is asked to roll back to an id that
\* only another session's list holds, and is refused.
C28_Witness ==
    /\ rbRet.op = "Rollback"
    /\ rbRet.err = "checkpoint not found"
    /\ rbRet.listBefore # <<>>
    /\ \A j \in 1..Len(rbRet.listBefore) : rbRet.listBefore[j].ID # rbRet.checkpointID
    /\ \E k \in DOMAIN checkpoints : \E j \in 1..Len(checkpoints[k]) :
          k # rbRet.before.ID /\ checkpoints[k][j].ID = rbRet.checkpointID
    /\ rbRet.before.ContainerID \in DOMAIN containers
    /\ containers[rbRet.before.ContainerID].state = "running"

\* C29: StopSession returns no error exactly when the container was stopped
\* and then removed; then the Session is Stopped, the container is gone and
\* one session_stopped entry was logged; on a stop or remove failure the
\* error is returned, the Session is as it was and nothing was logged.
C29_StopSurfacesFailures ==
    rbRet.op = "StopSession" =>
        LET c == rbRet.before.ContainerID
            stopOk == c \in DOMAIN rbRet.containersBefore /\ rbRet.stopEnv # "stop"
            removeOk == stopOk /\ rbRet.stopEnv # "remove"
        IN  /\ (rbRet.err = "") <=> removeOk
            /\ rbRet.err = "" =>
                  /\ held[rbRet.slot].State = SessionStopped
                  /\ c \notin DOMAIN containers
                  /\ Len(rbRet.audit) = 1
                  /\ rbRet.audit[1].EventType = "session_stopped"
                  /\ rbRet.audit[1].SessionID = rbRet.before.ID
            /\ rbRet.err # "" =>
                  /\ rbRet.err = IF stopOk THEN "removing container" ELSE "stopping container"
                  /\ held[rbRet.slot] = rbRet.before
                  /\ rbRet.audit = <<>>
\* The stop worked and the removal did not: the error is returned, the
\* Session still counts as running and its container is left behind, exited.
C29_Witness ==
    /\ rbRet.op = "StopSession"
    /\ rbRet.stopEnv = "remove"
    /\ rbRet.err = "removing container"
    /\ held[rbRet.slot].State = SessionRunning
    /\ rbRet.audit = <<>>
    /\ rbRet.before.ContainerID \in DOMAIN containers
    /\ containers[rbRet.before.ContainerID].state = "exited"

\* C30: a SpawnAgent for an agent that has a running managed container is
\* rejected and leaves the agent's worktree directory, its branch and the
\* work in them as they were, also when the Orchestrator's map has no entry
\* for the agent because the process was started anew.
LiveBefore(n) ==
    \E c \in orchRet.containersBefore :
        /\ c \in DOMAIN containers
        /\ containers[c].labels.managed
        /\ containers[c].labels.agent = n
        /\ containers[c].state = "running"
C30_SpawnSparesLiveAgent ==
    (orchRet.op = "SpawnAgent" /\ LiveBefore(orchRet.agent)) =>
        /\ orchRet.err = ErrAlreadyExists
        /\ worktrees = orchRet.worktreesBefore
        /\ branches = orchRet.branchesBefore
        /\ work = orchRet.workBefore

\* C31: the map entry a StopAgent left behind when its merge failed (its
\* Session already Stopped) does not wedge the agent: a later StopAgent for
\* it in which no step of the environment fails returns no error and deletes
\* the entry.
C31_RetryAfterMergeFailure ==
    (/\ orchRet.op = "StopAgent"
     /\ orchRet.stateBefore = SessionStopped
     /\ orchRet.clean) =>
        /\ orchRet.err = ""
        /\ orchRet.agent \notin DOMAIN sessions

\* C32: whatever commands in the container do, the policy file the shell
\* reads at /etc/claudeshield/policy.json stays the serialisation of the
\* host's rule set for the whole life of the session.
C32_PolicyArtifactFixed ==
    policyAttached => policyFile = generatePolicyMount(config)

\* C33: a command EvaluateCommand allows has no segment (the command cut at
\* ';', '&&', '||' and '|') that a block rule matches.
C33_NoBlockedSegment ==
    (polPc = "host" /\ hostResult.Allowed) =>
        \A seg \in Segments(polCmd) : FirstMatch(config.block, seg) = 0

\* C34: ListSessions returns one Session for every container bearing the
\* management label and none for any other; the Session has the container's
\* id and the session id, agent name and project directory CreateSession
\* gave that container, and its State is that of the container: Running for
\* a running one, Stopped for an exited one, Paused for a paused one.
C34_ListReflectsContainers ==
    (rbRet.op = "ListSessions" /\ rbRet.err = "") =>
        /\ \A c \in DOMAIN containers :
              Cardinality({i \in 1..Len(rbRet.listed) : rbRet.listed[i].ContainerID = c})
                  = IF containers[c].labels.managed THEN 1 ELSE 0
        /\ \A i \in 1..Len(rbRet.listed) :
              LET s == rbRet.listed[i]
                  c == s.ContainerID
              IN  /\ c \in DOMAIN containers
                  /\ s.ID = containers[c].name
                  /\ s.AgentName = s.ID.agent
                  /\ s.ProjectDir = containers[c].hostCfg.workspace
                  /\ (s.State = SessionRunning) <=> (containers[c].state = "running")
                  /\ (s.State = SessionStopped) <=> (containers[c].state = "exited")
                  /\ (s.State = SessionPaused) <=> (containers[c].state = "paused")

C36_SnapshotIsolated ==
    [][(view' # view /\ view'.last[1] \in {"put", "delete", "write"}) =>
           sessions' = sessions]_vars

C38_FailedRestoreKeepsContainer ==
    (/\ rbRet.op \in {"Rollback", "RollbackToLatest"}
     /\ rbRet.err \in {"creating container from checkpoint", "starting restored container"}
     /\ rbRet.before.ContainerID \in DOMAIN rbRet.containersBefore) =>
        held[rbRet.slot].ContainerID \in DOMAIN containers

\* C39: when CreateSession returns an error the daemon has no container that
\* it did not have before the call: a container that was created and failed
\* to start has been removed, and ListSessions has nothing new to report.
C39_FailedCreateLeavesNoContainer ==
    (rbRet.op = "CreateSession" /\ rbRet.err # "") =>
        /\ DOMAIN containers \subseteq DOMAIN rbRet.containersBefore
        /\ Len(ListSessionsCall(containers, FALSE).sessions)
               = Len(ListSessionsCall(rbRet.containersBefore, FALSE).sessions)

\* The goroutine's checkpoint is in the index under its session id.
Indexed(cps, g) ==
    \E i \in 1..Len(ListCheckpoints(cps, cpThr[g].session.ID)) :
        ListCheckpoints(cps, cpThr[g].session.ID)[i] = cpThr[g].cp

\* C40: two goroutines creating checkpoints for two different sessions on one
\* Manager lose nothing: the process is not ended by the runtime, and once both
\* calls have returned without error the in-memory index and, with a storage
\* path, the checkpoint file hold both checkpoints, each under its session id.
C40_ConcurrentCheckpointsKept ==
    /\ \A g \in CpCallers : cpThr[g].pc # "crashed"
    /\ (\A g \in CpCallers : cpThr[g].pc = "done" /\ cpThr[g].err = "") =>
           \A g \in CpCallers :
               /\ Indexed(checkpoints, g)
               /\ persist => Indexed(UnmarshalCheckpoints(store.data), g)

====
